---- MODULE Spec2Model ----
(***************************************************************************)
(* Model of synthtool's metadata store (synthtool/metadata.py) and of the  *)
(* two scope controllers that track generated files and remove obsolete    *)
(* ones: the timestamp-scan controller of synthtool/metadata_tracker.py    *)
(* and the event-capture controller of synthtool/metadata.py.              *)
(*                                                                         *)
(* Strings that the code compares or sorts are sequences of character      *)
(* codes; a path is the sequence of its parts (pathlib.Path(p).parts).     *)
(***************************************************************************)
EXTENDS Integers, Sequences, FiniteSets, TLC

VARIABLES
    fs,                      \* the working tree: path -> file (or NoFile)
    ignored,                 \* the paths version control ignores right now
    now,                     \* the clock, in seconds (time.time())
    repo,                    \* the git repository of the working directory
    _metadata,               \* metadata.py: the process-wide Metadata
    _track_obsolete_files,   \* metadata.py: the tracking toggle
    _enable_write_metadata,  \* metadata.py: the write toggle
    disk,                    \* the metadata file: its JSON text, or NoDisk
    controller,              \* which MetadataTrackerAndWriter class is used
    scope,                   \* the MetadataTrackerAndWriter instance
    last,                    \* what the most recent operation did
    googleapis,              \* googleapis.py: environment, cache, call history
    handler,                 \* the FileSystemEventHandler and its two threads
    nesting,                 \* a second instance opened inside the first
    sharding                 \* shard_repos.py: the locals of main

vars == <<fs, ignored, now, repo, _metadata, _track_obsolete_files,
          _enable_write_metadata, disk, controller, scope, last,
          googleapis, handler, nesting, sharding>>

(***************************************************************************)
(* Bounds of the model.                                                    *)
(***************************************************************************)
MaxTime == 2
MaxSources == 4
MaxRecorded == 1
MaxStored == 2
MaxDestinations == 1
MaxCommits == 3
MaxCalls == 2
MaxEvents == 3
MaxRepos == 3
MaxShards == 3

(***************************************************************************)
(* Strings.                                                                *)
(***************************************************************************)
StrEmpty == <<>>
StrGit == <<103, 105, 116>>
StrGenerator == <<103, 101, 110, 101, 114, 97, 116, 111, 114>>
StrTemplate == <<116, 101, 109, 112, 108, 97, 116, 101>>
StrDot == <<46>>
StrA == <<97>>
StrB == <<98>>
StrAB == <<97, 98>>
StrRepoDir == <<47, 114>>
StrOrigin == <<117>>

Min(a, b) == IF a <= b THEN a ELSE b

\* Python's str.__lt__: code point by code point, a proper prefix is smaller.
StrLess(a, b) ==
    \E i \in 1..(Min(Len(a), Len(b)) + 1) :
        /\ \A j \in 1..(i - 1) : a[j] = b[j]
        /\ \/ i > Len(a) /\ i <= Len(b)
           \/ i <= Len(a) /\ i <= Len(b) /\ a[i] < b[i]

\* Python's tuple.__lt__ on two tuples of strings of the same length.
KeyLess(k1, k2) ==
    \E i \in 1..Len(k1) :
        /\ \A j \in 1..(i - 1) : k1[j] = k2[j]
        /\ StrLess(k1[i], k2[i])

(***************************************************************************)
(* Sources and the Metadata message (synthtool.protos.metadata_pb2).       *)
(***************************************************************************)
GitSource(name, remote, sha, local_path, log) ==
    [kind |-> "git", name |-> name, remote |-> remote, sha |-> sha,
     local_path |-> local_path, log |-> log]
GeneratorSource(name, version, docker_image) ==
    [kind |-> "generator", name |-> name, version |-> version,
     docker_image |-> docker_image]
TemplateSource(name, origin, version) ==
    [kind |-> "template", name |-> name, origin |-> origin,
     version |-> version]
ClientDestination(source, api_name, api_version, language, generator, config) ==
    [kind |-> "client", source |-> source, api_name |-> api_name,
     api_version |-> api_version, language |-> language,
     generator |-> generator, config |-> config]

EmptyMetadata ==
    [sources |-> <<>>, destinations |-> <<>>, new_files |-> <<>>,
     generated_files |-> <<>>]

SeqToSet(s) == {s[i] : i \in 1..Len(s)}

(***************************************************************************)
(* The canonical order of sources.                                         *)
(***************************************************************************)
\* (a variant that keys a source by its kind and name only)
SourceKeyNameOnly(source) ==
    IF source.kind = "git" THEN <<StrGit, source.name>>
    ELSE IF source.kind = "generator" THEN <<StrGenerator, source.name>>
    ELSE <<StrTemplate, source.name>>

_source_key(source) ==
    IF source.kind = "git"
    THEN <<StrGit, source.name, source.remote, source.sha>>
    ELSE IF source.kind = "generator"
    THEN <<StrGenerator, source.name, source.version, source.docker_image>>
    ELSE <<StrTemplate, source.name, source.origin, source.version>>

\* One step of list.sort(key=...): x goes after every element whose key is
\* not greater than its own, so equal keys keep their order (a stable sort).
RECURSIVE InsertByKey(_, _)
InsertByKey(sorted, x) ==
    IF sorted = <<>>
    THEN <<x>>
    ELSE LET y == sorted[Len(sorted)]
         IN IF KeyLess(_source_key(x), _source_key(y))
            THEN Append(InsertByKey(SubSeq(sorted, 1, Len(sorted) - 1), x), y)
            ELSE Append(sorted, x)

RECURSIVE SortSources(_)
SortSources(sources) ==
    IF sources = <<>>
    THEN <<>>
    ELSE InsertByKey(SortSources(SubSeq(sources, 1, Len(sources) - 1)),
                     sources[Len(sources)])

_clear_local_paths(metadata) ==
    [metadata EXCEPT !.sources =
        [i \in 1..Len(metadata.sources) |->
            IF metadata.sources[i].kind = "git"
            THEN [metadata.sources[i] EXCEPT !.local_path = StrEmpty]
            ELSE metadata.sources[i]]]

(***************************************************************************)
(* The JSON form of a Metadata (google.protobuf.json_format): an object    *)
(* is a function from the keys that are present; a field with its default  *)
(* value (an empty string, an empty list) is left out, and a key that is   *)
(* absent parses to the default.                                           *)
(***************************************************************************)
Present(obj) == [k \in {k \in DOMAIN obj : obj[k] # <<>>} |-> obj[k]]
Field(obj, k) == IF k \in DOMAIN obj THEN obj[k] ELSE <<>>

SourceToJson(s) ==
    IF s.kind = "git"
    THEN [git |-> Present([name |-> s.name, remote |-> s.remote,
                           sha |-> s.sha, localPath |-> s.local_path,
                           log |-> s.log])]
    ELSE IF s.kind = "generator"
    THEN [generator |-> Present([name |-> s.name, version |-> s.version,
                                 dockerImage |-> s.docker_image])]
    ELSE [template |-> Present([name |-> s.name, origin |-> s.origin,
                                version |-> s.version])]

\* (a variant that looks for the proto field names instead of the JSON names)
SourceFromJsonSnakeCase(j) ==
    IF "git" \in DOMAIN j
    THEN GitSource(Field(j.git, "name"), Field(j.git, "remote"),
                   Field(j.git, "sha"), Field(j.git, "local_path"),
                   Field(j.git, "log"))
    ELSE IF "generator" \in DOMAIN j
    THEN GeneratorSource(Field(j.generator, "name"),
                         Field(j.generator, "version"),
                         Field(j.generator, "docker_image"))
    ELSE TemplateSource(Field(j.template, "name"),
                        Field(j.template, "origin"),
                        Field(j.template, "version"))

SourceFromJson(j) ==
    IF "git" \in DOMAIN j
    THEN GitSource(Field(j.git, "name"), Field(j.git, "remote"),
                   Field(j.git, "sha"), Field(j.git, "localPath"),
                   Field(j.git, "log"))
    ELSE IF "generator" \in DOMAIN j
    THEN GeneratorSource(Field(j.generator, "name"),
                         Field(j.generator, "version"),
                         Field(j.generator, "dockerImage"))
    ELSE TemplateSource(Field(j.template, "name"),
                        Field(j.template, "origin"),
                        Field(j.template, "version"))

DestinationToJson(d) ==
    [client |-> Present([source |-> d.source, apiName |-> d.api_name,
                         apiVersion |-> d.api_version,
                         language |-> d.language, generator |-> d.generator,
                         config |-> d.config])]
DestinationFromJson(j) ==
    ClientDestination(Field(j.client, "source"), Field(j.client, "apiName"),
                      Field(j.client, "apiVersion"),
                      Field(j.client, "language"),
                      Field(j.client, "generator"),
                      Field(j.client, "config"))

MessageToJson(m) ==
    Present([sources |->
                 [i \in 1..Len(m.sources) |-> SourceToJson(m.sources[i])],
             destinations |->
                 [i \in 1..Len(m.destinations) |->
                     DestinationToJson(m.destinations[i])],
             newFiles |->
                 [i \in 1..Len(m.new_files) |-> [path |-> m.new_files[i]]],
             generatedFiles |-> m.generated_files])

Parse(json) ==
    [sources |->
         [i \in 1..Len(Field(json, "sources")) |->
             SourceFromJson(json.sources[i])],
     destinations |->
         [i \in 1..Len(Field(json, "destinations")) |->
             DestinationFromJson(json.destinations[i])],
     new_files |->
         [i \in 1..Len(Field(json, "newFiles")) |-> json.newFiles[i].path],
     generated_files |-> Field(json, "generatedFiles")]

NoDisk == [exists |-> FALSE]
FileWith(text) == [exists |-> TRUE, text |-> text]

\* A file that is not a Metadata in JSON: json_format.Parse accepts no key
\* outside the message's fields.
CorruptText == [garbage |-> StrA]
IsMetadataJson(text) ==
    DOMAIN text \subseteq {"sources", "destinations", "newFiles",
                           "generatedFiles"}

\* (a variant whose parser passes over what it does not know)
ReadNeverRaises(file) == FALSE

\* json_format.Parse raises ParseError, and _read_or_empty lets it through.
ReadRaises(file) == file.exists /\ ~IsMetadataJson(file.text)

\* open(path): FileNotFoundError gives the empty Metadata.
_read_or_empty(file) ==
    IF file.exists THEN Parse(file.text) ELSE EmptyMetadata

\* write(outfile): the file then holds MessageToJson(_metadata).
WriteFile(metadata) == FileWith(MessageToJson(metadata))

(***************************************************************************)
(* Paths and the working tree.  A path is the tuple of its parts, each a   *)
(* string: code/b is <<"code", "b">>.                                      *)
(***************************************************************************)
SegDotGit == <<46, 103, 105, 116>>
SegCode == <<99, 111, 100, 101>>
SegConfig == <<99, 111, 110, 102, 105, 103>>
SegA == <<97>>
SegB == <<98>>
SegC == <<99>>

PathA == <<SegA>>
PathCodeB == <<SegCode, SegB>>
PathCodeC == <<SegCode, SegC>>
PathGitConfig == <<SegDotGit, SegConfig>>
Paths == {PathA, PathCodeB, PathCodeC, PathGitConfig}

\* The order in which os.walk(os.getcwd()) yields the files of the tree.
WalkOrder == <<PathA, PathGitConfig, PathCodeB, PathCodeC>>

\* str(path): the parts joined by "/".
RECURSIVE PathStr(_)
PathStr(path) ==
    IF Len(path) = 0 THEN <<>>
    ELSE IF Len(path) = 1 THEN path[1]
    ELSE path[1] \o <<47>> \o PathStr(Tail(path))

\* sorted(set(paths)), as a list.
RECURSIVE SortedPaths(_)
SortedPaths(S) ==
    IF S = {} THEN <<>>
    ELSE LET m == CHOOSE x \in S :
                     \A y \in S \ {x} : StrLess(PathStr(x), PathStr(y))
         IN <<m>> \o SortedPaths(S \ {m})

\* The directory of code/b and code/c: a record may list it as a file that
\* an earlier version of the generator wrote.
PathCode == <<SegCode>>

\* The paths of a set as a list, in the order the set is iterated.
IterationOrder == <<PathA, PathGitConfig, PathCode, PathCodeB, PathCodeC>>
ListOf(S) == SelectSeq(IterationOrder, LAMBDA p : p \in S)

NoFile == [exists |-> FALSE]
File(mtime, author) == [exists |-> TRUE, mtime |-> mtime, author |-> author]

\* A symbolic link whose target is gone: os.walk lists it among the files,
\* os.path.exists is false for it, os.path.getmtime raises
\* FileNotFoundError.
BrokenLink == [exists |-> FALSE, link |-> TRUE]
Listed(tree, p) == tree[p].exists \/ tree[p] = BrokenLink
GetmtimeRaises(tree, p) == tree[p] = BrokenLink
Existing(tree) == {p \in Paths : tree[p].exists}

\* ".git" in pathlib.Path(file_path).parts
HasGitPart(path) == \E i \in 1..Len(path) : path[i] = SegDotGit

\* (a variant in which the rules are applied outside a repository too)
CheckIgnoreOutputAnywhere(paths, rules, repository) ==
    {p \in SeqToSet(paths) : p \in rules}

\* What `git check-ignore --stdin` prints for the paths it is given: the ones
\* the ignore rules match; outside a repository it prints nothing.
CheckIgnoreOutput(paths, rules, repository) ==
    IF repository.is_repo THEN {p \in SeqToSet(paths) : p \in rules} ELSE {}

\* (a variant that leaves the .git paths to git check-ignore)
GitIgnoreKeepsDotGit(file_paths, rules, repository) ==
    LET ignored_file_paths == CheckIgnoreOutput(file_paths, rules, repository)
    IN SelectSeq(file_paths, LAMBDA p : p \notin ignored_file_paths)

\* git_ignore(file_paths): the same list without the .git paths and without
\* the paths git reports as ignored.
git_ignore(file_paths, rules, repository) ==
    LET nongit_file_paths == SelectSeq(file_paths, LAMBDA p : ~HasGitPart(p))
        ignored_file_paths ==
            CheckIgnoreOutput(nongit_file_paths, rules, repository)
    IN SelectSeq(nongit_file_paths, LAMBDA p : p \notin ignored_file_paths)

\* (a variant that wants the mtime strictly after newer_than)
GetNewFilesSinceEntry(tree, newer_than) ==
    SelectSeq(WalkOrder,
              LAMBDA p : tree[p].exists /\ tree[p].mtime >= newer_than + 1)

GetNewFilesStrict(tree, newer_than) ==
    SelectSeq(WalkOrder,
              LAMBDA p : tree[p].exists /\ tree[p].mtime > newer_than)

\* _get_new_files(newer_than): the files of the tree with mtime >= newer_than.
\* (a variant that takes a link for a new file without asking for its
\* modification time)
GetNewFilesWithLinks(tree, newer_than) ==
    SelectSeq(WalkOrder,
              LAMBDA p : /\ Listed(tree, p)
                         /\ \/ GetmtimeRaises(tree, p)
                            \/ tree[p].mtime >= newer_than)

_get_new_files(tree, newer_than) ==
    SelectSeq(WalkOrder,
              LAMBDA p : /\ Listed(tree, p)
                         /\ ~GetmtimeRaises(tree, p)
                         /\ tree[p].mtime >= newer_than)

\* (a variant that overwrites the list instead of appending to it)
ReplaceNewFiles(metadata, files) == [metadata EXCEPT !.new_files = files]

\* (a variant in which the files are recorded after the reconciliation, so
\* that the reconciler meets the record as it was at entry)
AddNewFilesLater(metadata, files) == metadata

\* _add_new_files(files): one new_files entry appended per file.
_add_new_files(metadata, files) ==
    [metadata EXCEPT !.new_files = metadata.new_files \o files]

\* (variants: the difference taken the wrong way round, and the obsolete
\* paths not passed through git_ignore)
ObsoleteFilesSwapped(old_files, new_files, rules, repository) ==
    git_ignore(ListOf(SeqToSet(new_files) \ SeqToSet(old_files)),
               rules, repository)
ObsoleteFilesUnfiltered(old_files, new_files, rules, repository) ==
    ListOf(SeqToSet(old_files) \ SeqToSet(new_files))

\* The paths _remove_obsolete_files hands to os.unlink.
ObsoleteFiles(old_files, new_files, rules, repository) ==
    git_ignore(ListOf(SeqToSet(old_files) \ SeqToSet(new_files)),
               rules, repository)

\* A path is a directory when a file of the tree lies below it.
IsDirectory(tree, path) ==
    \E q \in Paths : /\ Listed(tree, q)
                     /\ Len(q) > Len(path)
                     /\ SubSeq(q, 1, Len(path)) = path

\* (a variant without the `except FileNotFoundError` clause)
UnlinkRaisesWhenAbsent(tree, path) ==
    IsDirectory(tree, path) \/ path \notin Paths \/ ~tree[path].exists

\* os.unlink(path) raises an error that _remove_obsolete_files does not
\* catch: the path is a directory.
UnlinkRaises(tree, path) == IsDirectory(tree, path)

\* (a variant that takes the git binary for granted)
GitAlwaysFound(repository) == FALSE

\* shutil.which("git") finds nothing, and git_ignore raises.
GitMissing(repository) == ~repository.git_found

\* os.unlink of each path; FileNotFoundError is passed over.
Unlink(tree, paths) ==
    [p \in Paths |-> IF p \in SeqToSet(paths) THEN NoFile ELSE tree[p]]

(***************************************************************************)
(* Git history of the working directory's repository: commit n has the     *)
(* one-character sha "0" + n; head = 0 is a repository without commits.    *)
(***************************************************************************)
ShaOf(n) == IF n = 0 THEN StrEmpty ELSE <<48 + n>>

\* stdout of `git -C local_path log --pretty=oneline old_sha..HEAD`: one line
\* per commit after old_sha, newest first; nothing when git fails.
RECURSIVE LogLines(_, _)
LogLines(from, to) ==
    IF to <= from THEN StrEmpty
    ELSE ShaOf(to) \o <<10>> \o LogLines(from, to - 1)

GitLogOutput(local_path, old_sha, repository) ==
    IF /\ local_path = StrRepoDir
       /\ repository.is_repo
       /\ \E n \in 1..repository.head : ShaOf(n) = old_sha
    THEN LogLines(CHOOSE n \in 1..repository.head : ShaOf(n) = old_sha,
                  repository.head)
    ELSE StrEmpty

\* The status of that git log is not 0: local_path is no repository, or
\* old_sha names no commit of it.
GitLogFails(local_path, old_sha, repository) ==
    ~ /\ local_path = StrRepoDir
      /\ repository.is_repo
      /\ \E n \in 1..repository.head : ShaOf(n) = old_sha

\* _get_git_source_map(metadata)[name]: the index of the last git source with
\* that name (a later dict entry replaces an earlier one), 0 if there is none.
GitSourceIndex(metadata, name) ==
    LET idx == {i \in 1..Len(metadata.sources) :
                   /\ metadata.sources[i].kind = "git"
                   /\ metadata.sources[i].name = name}
    IN IF idx = {} THEN 0 ELSE CHOOSE i \in idx : \A j \in idx : j <= i

\* (a variant of the loop without its `continue`)
GitLogRunsUnguarded(old_metadata, new_metadata, i) ==
    LET git_source == new_metadata.sources[i]
    IN /\ git_source.kind = "git"
       /\ GitSourceIndex(new_metadata, git_source.name) = i

\* The sha of old_map.get(name, GitSource()): "" when the old metadata has
\* no git source of that name.
OldSourceSha(old_metadata, name) ==
    LET o == GitSourceIndex(old_metadata, name)
    IN IF o = 0 THEN StrEmpty ELSE old_metadata.sources[o].sha

\* The loop of _append_git_logs reaches subprocess.run for source i: it is
\* the entry of new_map for its name, and neither old_source.sha nor
\* git_source.local_path is empty.
GitLogRuns(old_metadata, new_metadata, i) ==
    LET git_source == new_metadata.sources[i]
    IN /\ git_source.kind = "git"
       /\ GitSourceIndex(new_metadata, git_source.name) = i
       /\ OldSourceSha(old_metadata, git_source.name) # StrEmpty
       /\ git_source.local_path # StrEmpty

_append_git_logs(old_metadata, new_metadata, repository) ==
    [new_metadata EXCEPT !.sources =
        [i \in 1..Len(new_metadata.sources) |->
            LET git_source == new_metadata.sources[i]
            IN IF GitLogRuns(old_metadata, new_metadata, i)
               THEN [git_source EXCEPT
                        !.log = GitLogOutput(
                                    git_source.local_path,
                                    OldSourceSha(old_metadata,
                                                 git_source.name),
                                    repository)]
               ELSE git_source]]

\* _add_git_source_from_directory(".", os.getcwd()): nothing outside a
\* repository, else one git source with the origin url and the head sha.
_add_self_git_source(metadata, repository) ==
    IF ~repository.is_repo THEN metadata
    ELSE [metadata EXCEPT !.sources =
             Append(metadata.sources,
                    GitSource(StrDot, repository.remote,
                              ShaOf(repository.head), StrEmpty, StrEmpty))]

(***************************************************************************)
(* The state after the modules are imported, with a working tree that      *)
(* `git init` has just set up.                                             *)
(***************************************************************************)
\* The events watchdog delivers.  The observer watches the directory of the
\* metadata file and reports the paths below it with that directory in
\* front.
WatchDir == <<StrDot>>
FileEvent(type, src) ==
    [event_type |-> type, is_directory |-> FALSE, src_path |-> WatchDir \o src,
     dest_path |-> <<>>]
DirectoryEvent(type, src) ==
    [event_type |-> type, is_directory |-> TRUE, src_path |-> WatchDir \o src,
     dest_path |-> <<>>]
MovedEvent(is_directory, src, dest) ==
    [event_type |-> "moved", is_directory |-> is_directory,
     src_path |-> WatchDir \o src, dest_path |-> WatchDir \o dest]
Events ==
    {FileEvent(t, p) : t \in {"created", "modified", "deleted"},
                       p \in {PathA, PathCodeB}}
        \cup {DirectoryEvent(t, PathCode) :
                  t \in {"created", "modified", "deleted"}}
        \cup {MovedEvent(FALSE, PathA, PathCodeB),
              MovedEvent(FALSE, PathCodeB, PathA),
              MovedEvent(TRUE, PathCode, PathA)}

\* pathlib.Path(path).relative_to(dir), for a path below dir.
relative_to(path, dir) == SubSeq(path, Len(dir) + 1, Len(path))

\* on_any_event returns before it touches the list.
NoTouchedPath == <<>>

\* (a variant that takes the source path of a moved file)
TouchedPathOfSource(event) ==
    IF event.is_directory THEN NoTouchedPath
    ELSE IF event.event_type \in {"modified", "created", "moved"}
    THEN relative_to(event.src_path, WatchDir)
    ELSE NoTouchedPath

\* The path on_any_event is about to append for an event.
TouchedPath(event) ==
    IF event.is_directory THEN NoTouchedPath
    ELSE IF event.event_type \in {"modified", "created"}
    THEN relative_to(event.src_path, WatchDir)
    ELSE IF event.event_type = "moved"
    THEN relative_to(event.dest_path, WatchDir)
    ELSE NoTouchedPath

\* FileSystemEventHandler.__init__, with the notification thread (notifier)
\* and the thread that reads the result (foreground) at rest.  The other
\* fields are history: the events delivered so far and their number, the
\* paths whose append is complete, and, from the moment the foreground
\* thread last took the lock, those paths, the number of events, and
\* whether the notification thread was between two events.
NewHandler ==
    [_touched_file_paths |-> <<>>, _touched_lock |-> "free",
     notifier |-> [pc |-> "idle", touched_path |-> NoTouchedPath],
     foreground |-> [pc |-> "idle", paths |-> {}, result |-> <<>>],
     delivered |-> {}, count |-> 0, appended |-> {},
     appended_at_lock |-> {}, count_at_lock |-> 0, quiet_at_lock |-> TRUE]

\* googleapis.py: clone_googleapis and what it relies on.
StrGoogleapis == <<103, 111, 111, 103, 108, 101, 97, 112, 105, 115>>
StrGoogleapisPrivate == StrGoogleapis \o <<45, 112>>
StrCloneDir == <<47, 103>>
StrPrivateCloneDir == <<47, 103, 112>>
NoPath == <<>>

\* The environment variable that names a local copy.
EnvironName(private) ==
    IF private THEN "SYNTHTOOL_GOOGLEAPIS_PRIVATE" ELSE "SYNTHTOOL_GOOGLEAPIS"

\* git.clone(url): the directory of the clone; the clone is recorded as a
\* git source, and the clone of the private repository needs credentials.
CloneDir(private) == IF private THEN StrPrivateCloneDir ELSE StrCloneDir
ClonedSource(private) ==
    GitSource(IF private THEN StrGoogleapisPrivate ELSE StrGoogleapis,
              StrOrigin, ShaOf(1), CloneDir(private), StrEmpty)
CloneFails(private, credentials) == private /\ ~credentials

\* The error the body of clone_googleapis ends with: metadata.py has no
\* add_git_source_from_directory (its function is _add_git_source_from_
\* directory), so the branch of the local copy fails on the attribute.
CloneRaises(private, g) ==
    IF EnvironName(private) \in g.environ THEN "AttributeError"
    ELSE IF CloneFails(private, g.credentials) THEN "CalledProcessError"
    ELSE "none"

\* No variable set, credentials at hand, nothing cached, no call made.
\* (calls, runs and first are history: the calls made per argument, the
\* times the body ran, and what the first call returned.)
NoClones ==
    [environ |-> {}, credentials |-> TRUE,
     cache |-> [b \in BOOLEAN |-> NoPath],
     calls |-> [b \in BOOLEAN |-> 0],
     runs |-> [b \in BOOLEAN |-> 0],
     first |-> [b \in BOOLEAN |-> NoPath]]

Closed ==
    [pc |-> "closed", old_metadata |-> EmptyMetadata, start_time |-> 0,
     touched |-> {}, entered_at |-> 0]
Idle == [op |-> "none"]

\* shard_repos.main has not been called.
NotSharding == [pc |-> "idle"]

\* No second instance.  generated keeps, for each file the generation work
\* wrote, when it last did and whether that was before the second instance
\* was entered, during it or after it.
NoNesting ==
    [inner |-> Closed, entered |-> FALSE, entered_at |-> 0,
     generated |-> [p \in Paths |-> [stage |-> "none", at |-> 0]]]

\* (git_found: shutil.which("git") finds the binary)
FreshRepo ==
    [is_repo |-> TRUE, remote |-> StrEmpty, head |-> 0, git_found |-> TRUE]

\* A metadata file left by an earlier release or edited by hand, that lists
\* a path inside .git among the generated files.
StaleRecord ==
    [EmptyMetadata EXCEPT !.new_files = <<PathGitConfig>>,
                          !.generated_files = <<PathGitConfig>>]

InitStore ==
    /\ _metadata = EmptyMetadata
    /\ _track_obsolete_files = FALSE
    /\ _enable_write_metadata = TRUE

FreshTree ==
    [p \in Paths |-> IF p = PathGitConfig THEN File(0, "git") ELSE NoFile]

Init ==
    /\ fs = FreshTree
    /\ ignored = {}
    /\ now = 0
    /\ repo = FreshRepo
    /\ InitStore
    /\ disk \in {NoDisk, WriteFile(StaleRecord)}
    /\ controller \in {"tracker", "watcher"}
    /\ scope = Closed
    /\ last = Idle
    /\ googleapis = NoClones
    /\ handler = NewHandler
    /\ nesting = NoNesting
    /\ sharding = NotSharding

(***************************************************************************)
(* The metadata store (metadata.py).                                       *)
(***************************************************************************)
reset ==
    /\ _metadata' = EmptyMetadata
    /\ last' = Idle
    /\ UNCHANGED <<fs, ignored, now, repo, _track_obsolete_files,
                   _enable_write_metadata, disk, controller, handler, googleapis, scope,
                   nesting, sharding>>

set_track_obsolete_files(track_obsolete_files) ==
    /\ _track_obsolete_files' = track_obsolete_files
    /\ last' = Idle
    /\ UNCHANGED <<fs, ignored, now, repo, _metadata,
                   _enable_write_metadata, disk, controller, handler, googleapis, scope,
                   nesting, sharding>>

\* (a variant that does not consult the toggle)
AlwaysTrack == TRUE

should_track_obsolete_files == _track_obsolete_files

enable_write_metadata(enable) ==
    /\ _enable_write_metadata' = enable
    /\ last' = Idle
    /\ UNCHANGED <<fs, ignored, now, repo, _metadata,
                   _track_obsolete_files, disk, controller, handler, googleapis, scope,
                   nesting, sharding>>

\* What an add_*_source call did, for the properties below: the call, the
\* source it was given, the metadata it found, and how many times in a row
\* the same call has been made by now.
AddRecord(call, source) ==
    [op |-> "add", call |-> call, source |-> source, before |-> _metadata,
     repeat |-> IF last.op = "add" /\ last.call = call /\ last.source = source
                THEN last.repeat + 1
                ELSE 1]

\* (a variant that keeps one entry per distinct git source)
add_git_source_once(git) ==
    /\ Len(_metadata.sources) < MaxStored
    /\ _metadata' = IF git \in SeqToSet(_metadata.sources) THEN _metadata
                    ELSE [_metadata EXCEPT !.sources = Append(@, git)]
    /\ last' = AddRecord("add_git_source", git)
    /\ UNCHANGED <<fs, ignored, now, repo, _track_obsolete_files,
                   _enable_write_metadata, disk, controller, handler, googleapis, scope,
                   nesting, sharding>>

\* add_git_source(**kwargs): one more entry, nothing is de-duplicated.
add_git_source(git) ==
    /\ Len(_metadata.sources) < MaxStored
    /\ _metadata' = [_metadata EXCEPT !.sources = Append(@, git)]
    /\ last' = AddRecord("add_git_source", git)
    /\ UNCHANGED <<fs, ignored, now, repo, _track_obsolete_files,
                   _enable_write_metadata, disk, controller, handler, googleapis, scope,
                   nesting, sharding>>

add_generator_source(generator) ==
    /\ Len(_metadata.sources) < MaxStored
    /\ _metadata' = [_metadata EXCEPT !.sources = Append(@, generator)]
    /\ last' = AddRecord("add_generator_source", generator)
    /\ UNCHANGED <<fs, ignored, now, repo, _track_obsolete_files,
                   _enable_write_metadata, disk, controller, handler, googleapis, scope,
                   nesting, sharding>>

add_template_source(template) ==
    /\ Len(_metadata.sources) < MaxStored
    /\ _metadata' = [_metadata EXCEPT !.sources = Append(@, template)]
    /\ last' = AddRecord("add_template_source", template)
    /\ UNCHANGED <<fs, ignored, now, repo, _track_obsolete_files,
                   _enable_write_metadata, disk, controller, handler, googleapis, scope,
                   nesting, sharding>>

add_client_destination(client) ==
    /\ Len(_metadata.destinations) < MaxDestinations
    /\ _metadata' = [_metadata EXCEPT !.destinations = Append(@, client)]
    /\ last' = Idle
    /\ UNCHANGED <<fs, ignored, now, repo, _track_obsolete_files,
                   _enable_write_metadata, disk, controller, handler, googleapis, scope,
                   nesting, sharding>>

\* clone_googleapis(private) under functools.lru_cache: a cached result is
\* returned at once; else the body runs, and its result is cached unless it
\* raised.
clone_googleapis(private) ==
    /\ googleapis.calls[private] < MaxCalls
    /\ LET hit == googleapis.cache[private] # NoPath
           raised == IF hit THEN "none" ELSE CloneRaises(private, googleapis)
           googleapis_path ==
               IF hit THEN googleapis.cache[private]
               ELSE IF raised = "none" THEN CloneDir(private)
               ELSE NoPath
       IN /\ _metadata' =
                 IF ~hit /\ raised = "none"
                 THEN [_metadata EXCEPT
                          !.sources = Append(@, ClonedSource(private))]
                 ELSE _metadata
          /\ googleapis' =
                 [googleapis EXCEPT
                     !.cache[private] = googleapis_path,
                     !.calls[private] = @ + 1,
                     !.runs[private] = IF hit THEN @ ELSE @ + 1,
                     !.first[private] =
                         IF googleapis.calls[private] = 0
                         THEN googleapis_path ELSE @]
          /\ last' = [op |-> "clone", private |-> private,
                      result |-> googleapis_path, raised |-> raised,
                      before |-> _metadata, prior |-> last.op]
    /\ UNCHANGED <<fs, ignored, now, repo, _track_obsolete_files,
                   _enable_write_metadata, disk, controller, handler, scope,
                   nesting, sharding>>

(***************************************************************************)
(* FileSystemEventHandler: on_any_event runs on the notification thread of *)
(* the observer, one event at a time; get_touched_file_paths runs on the   *)
(* thread of the script.  Each action is one step of one thread.           *)
(***************************************************************************)
\* FileSystemEventHandler.get_touched_file_paths
get_touched_file_paths(touched) == SortedPaths(touched)

HandlerStep(h) ==
    /\ handler' = h
    /\ UNCHANGED <<fs, ignored, now, repo, _metadata, _track_obsolete_files,
                   _enable_write_metadata, disk, controller, scope, last,
                   googleapis, nesting, sharding>>

\* (a lock that never makes a thread wait)
LockIgnored(lock) == TRUE

\* threading.Lock.acquire returns once no thread holds the lock.
LockFree(lock) == lock = "free"

\* on_any_event(event) up to the with-statement: the event is passed over,
\* or its path is made relative to the watched directory.
NotifierEvent(event) ==
    /\ handler.notifier.pc = "idle"
    /\ handler.count < MaxEvents
    /\ HandlerStep(
           [handler EXCEPT
               !.notifier =
                   IF TouchedPath(event) = NoTouchedPath THEN @
                   ELSE [pc |-> "acquire",
                         touched_path |-> TouchedPath(event)],
               !.delivered = @ \cup {event},
               !.count = @ + 1])

NotifierAcquire ==
    /\ handler.notifier.pc = "acquire"
    /\ LockFree(handler._touched_lock)
    /\ HandlerStep([handler EXCEPT !._touched_lock = "notifier",
                                   !.notifier.pc = "append"])

NotifierAppend ==
    /\ handler.notifier.pc = "append"
    /\ HandlerStep(
           [handler EXCEPT
               !._touched_file_paths =
                   Append(@, handler.notifier.touched_path),
               !.appended = @ \cup {handler.notifier.touched_path},
               !.notifier.pc = "release"])

NotifierRelease ==
    /\ handler.notifier.pc = "release"
    /\ HandlerStep([handler EXCEPT !._touched_lock = "free",
                                   !.notifier.pc = "idle"])

\* get_touched_file_paths is called.
ForegroundCall ==
    /\ handler.foreground.pc \in {"idle", "done"}
    /\ HandlerStep([handler EXCEPT !.foreground.pc = "acquire"])

ForegroundAcquire ==
    /\ handler.foreground.pc = "acquire"
    /\ LockFree(handler._touched_lock)
    /\ HandlerStep(
           [handler EXCEPT
               !._touched_lock = "foreground",
               !.foreground.pc = "copy",
               !.appended_at_lock = handler.appended,
               !.count_at_lock = handler.count,
               !.quiet_at_lock = handler.notifier.pc = "idle"])

\* paths = set(self._touched_file_paths)
ForegroundCopy ==
    /\ handler.foreground.pc = "copy"
    /\ HandlerStep(
           [handler EXCEPT
               !.foreground.paths = SeqToSet(handler._touched_file_paths),
               !.foreground.pc = "release"])

ForegroundRelease ==
    /\ handler.foreground.pc = "release"
    /\ HandlerStep([handler EXCEPT !._touched_lock = "free",
                                   !.foreground.pc = "sort"])

\* result = list(paths); result.sort(); return result
ForegroundSort ==
    /\ handler.foreground.pc = "sort"
    /\ HandlerStep(
           [handler EXCEPT
               !.foreground.result =
                   get_touched_file_paths(handler.foreground.paths),
               !.foreground.pc = "done"])

\* write(outfile), called directly: local_path is written as it is.
write ==
    /\ disk' = WriteFile(_metadata)
    /\ last' = [op |-> "write", metadata |-> _metadata]
    /\ UNCHANGED <<fs, ignored, now, repo, _metadata, _track_obsolete_files,
                   _enable_write_metadata, controller, handler, googleapis, scope,
                   nesting, sharding>>

\* What a call that raised has returned.
NoResult == [returned |-> FALSE]

\* A caller reads the file back; `written` is the Metadata that the write
\* just before it (if there was one) serialized.
ReadMetadata ==
    /\ last' = [op |-> "read",
                result |-> IF ReadRaises(disk) THEN NoResult
                           ELSE _read_or_empty(disk),
                raised |-> IF ReadRaises(disk) THEN "ParseError" ELSE "none",
                after_write |-> last.op = "write",
                written |-> IF last.op = "write" THEN last.metadata
                            ELSE EmptyMetadata]
    /\ UNCHANGED <<fs, ignored, now, repo, _metadata, _track_obsolete_files,
                   _enable_write_metadata, disk, controller, handler, googleapis, scope,
                   nesting, sharding>>

(***************************************************************************)
(* The world around the controller: the clock, the generation work, git    *)
(* and people writing files, and the ignore rules changing.                *)
(***************************************************************************)
GeneratedPaths == {PathA, PathCodeB, PathCodeC}
PersonPaths == {PathA}
IgnoreRules == {{}, {PathCodeC}}

\* Whether a scope was closed and then only time went by (after_exit), or
\* was then entered again (enter): kept so that an exit knows it is a rerun.
Waiting ==
    IF last.op \in {"exit", "after_exit"} THEN [op |-> "after_exit"]
    ELSE IF last.op = "enter" THEN last
    ELSE Idle

\* The clock is read by the timestamp scan only.
Tick ==
    /\ controller = "tracker"
    /\ now < MaxTime
    /\ now' = now + 1
    /\ last' = Waiting
    /\ UNCHANGED <<fs, ignored, repo, _metadata, _track_obsolete_files,
                   _enable_write_metadata, disk, controller, handler, googleapis, scope,
                   nesting, sharding>>

\* An open watcher is told of a created or modified file.
on_any_event(path) ==
    IF scope.pc = "open" /\ controller = "watcher"
    THEN [scope EXCEPT !.touched = @ \cup {path}]
    ELSE scope

\* The generation work writes a file while a scope is open.
GenerateFile(path) ==
    /\ scope.pc = "open"
    /\ fs' = [fs EXCEPT ![path] = File(now, "generator")]
    /\ scope' = on_any_event(path)
    /\ last' = Idle
    /\ UNCHANGED <<ignored, now, repo, _metadata, _track_obsolete_files,
                   _enable_write_metadata, disk, controller, handler, googleapis,
                   nesting, sharding>>

\* A person writes a file between two generation passes.
PersonWrites(path) ==
    /\ scope.pc = "closed"
    /\ fs' = [fs EXCEPT ![path] = File(now, "person")]
    /\ last' = Idle
    /\ UNCHANGED <<ignored, now, repo, _metadata, _track_obsolete_files,
                   _enable_write_metadata, disk, controller, handler, googleapis, scope,
                   nesting, sharding>>

\* A git command of the generation work rewrites a file inside .git.  The
\* timestamp scan meets .git/config through the mtime `git init` gave it.
GitWrites ==
    /\ scope.pc = "open"
    /\ controller = "watcher"
    /\ fs' = [fs EXCEPT ![PathGitConfig] = File(now, "git")]
    /\ scope' = on_any_event(PathGitConfig)
    /\ last' = Idle
    /\ UNCHANGED <<ignored, now, repo, _metadata, _track_obsolete_files,
                   _enable_write_metadata, disk, controller, handler, googleapis,
                   nesting, sharding>>

\* The generation work inside the with-block raises an error.
WorkRaises ==
    /\ scope.pc = "open"
    /\ scope' = [scope EXCEPT !.pc = "failed"]
    /\ last' = Idle
    /\ UNCHANGED <<fs, ignored, now, repo, _metadata, _track_obsolete_files,
                   _enable_write_metadata, disk, controller, handler, googleapis,
                   nesting, sharding>>

SetIgnoreRules(rules) ==
    /\ ignored' = rules
    /\ last' = Idle
    /\ UNCHANGED <<fs, now, repo, _metadata, _track_obsolete_files,
                   _enable_write_metadata, disk, controller, handler, googleapis, scope,
                   nesting, sharding>>

(***************************************************************************)
(* MetadataTrackerAndWriter.                                               *)
(***************************************************************************)
\* (a variant that deletes nothing)
RemoveNoFiles(tree, old_files, new_files, rules, repository) == tree

_remove_obsolete_files(tree, old_files, new_files, rules, repository) ==
    Unlink(tree, ObsoleteFiles(old_files, new_files, rules, repository))

\* The error an exit ends with: the one git_ignore raises at its first call
\* when git is missing, else the one of the first os.unlink that fails.
ExitRaises(tracking, tree, obsolete, repository) ==
    IF tracking /\ GitMissing(repository) THEN "FileNotFoundError"
    ELSE IF tracking /\ \E p \in SeqToSet(obsolete) : UnlinkRaises(tree, p)
    THEN "IsADirectoryError"
    ELSE "none"

\* What the loop over the obsolete paths may have deleted when one unlink
\* raised: the set is iterated in no particular order, so any of the paths
\* that can be deleted may have come before the one that cannot.
DeletedBeforeError(tree, obsolete) ==
    SUBSET {p \in SeqToSet(obsolete) : ~UnlinkRaises(tree, p)}

\* What an enter that raised leaves in `last`.
EnterRaised(error) == [op |-> "enter_raised", raised |-> error]

\* What an exit did, for the properties below.
\* (entered_at, the clock when the scope was entered, is kept for them too.)
ExitRecord(self, tracking, candidates, old_files, new_files) ==
    [op |-> "exit", tracking |-> tracking,
     candidates |-> SeqToSet(candidates),
     old_files |-> SeqToSet(old_files), new_files |-> SeqToSet(new_files),
     rules |-> ignored, before |-> fs, metadata_before |-> _metadata,
     disk_before |-> disk, entered_at |-> self.entered_at,
     old_metadata |-> self.old_metadata,
     work_failed |-> self.pc = "failed",
     git_logs |-> IF controller = "tracker"
                  THEN {i \in DOMAIN _metadata.sources :
                           GitLogRuns(self.old_metadata, _metadata, i)}
                  ELSE {},
     raised |-> ExitRaises(tracking, fs,
                           ObsoleteFiles(old_files, new_files, ignored, repo),
                           repo),
     rerun |-> last.op = "enter" /\ last.rerun]

\* (after_untracked: the operation before was an exit that ran with the
\* tracking off and an empty record in the store, and wrote the file;
\* dropped: the files the snapshot of that exit listed.)
EnterRecord ==
    LET untracked == /\ last.op = "exit"
                     /\ ~last.tracking
                     /\ last.raised = "none"
                     /\ last.metadata_before.new_files = <<>>
                     /\ last.metadata_before.generated_files = <<>>
                     /\ disk # last.disk_before
    IN [op |-> "enter", rerun |-> last.op \in {"exit", "after_exit"},
        after_untracked |-> untracked,
        dropped |-> IF untracked THEN last.old_files ELSE {}]

\* (a variant in which __exit__ is skipped when the with-body raised)
ExitRunsAfterSuccessOnly(pc) == pc = "open"

\* __exit__(self, type, value, traceback) is called however the with-body
\* ended, and does not look at its arguments.
ExitRuns(pc) == pc \in {"open", "failed"}

\* metadata_tracker.py: __enter__
TrackerEnter ==
    /\ controller = "tracker"
    /\ scope.pc = "closed"
    /\ Len(_metadata.new_files) <= MaxRecorded
    /\ IF ReadRaises(disk)
       THEN /\ scope' = scope
            /\ last' = EnterRaised("ParseError")
       ELSE /\ scope' = [pc |-> "open",
                         old_metadata |-> _read_or_empty(disk),
                         start_time |-> now - 1, touched |-> {},
                         entered_at |-> now]
            /\ last' = EnterRecord
    /\ UNCHANGED <<fs, ignored, now, repo, _metadata, _track_obsolete_files,
                   _enable_write_metadata, disk, controller, handler, googleapis,
                   nesting, sharding>>

\* What the __exit__ of metadata_tracker.py does for the instance self.
tracker__exit__(self) ==
    LET tracking == should_track_obsolete_files
        new_files == _get_new_files(fs, self.start_time)
        tracked_new_files == git_ignore(new_files, ignored, repo)
        recorded == IF tracking /\ ~GitMissing(repo)
                    THEN _add_new_files(_metadata, tracked_new_files)
                    ELSE _metadata
        obsolete == ObsoleteFiles(self.old_metadata.new_files,
                                  recorded.new_files, ignored, repo)
        raised == ExitRaises(tracking, fs, obsolete, repo)
        logged == _append_git_logs(self.old_metadata, recorded, repo)
        cleared == _clear_local_paths(logged)
    IN /\ \/ /\ raised = "none"
             /\ fs' = IF tracking
                      THEN _remove_obsolete_files(
                               fs, self.old_metadata.new_files,
                               recorded.new_files, ignored, repo)
                      ELSE fs
             /\ _metadata' = cleared
             /\ disk' = WriteFile(cleared)
          \/ /\ raised = "FileNotFoundError"
             /\ UNCHANGED <<fs, _metadata, disk>>
          \/ /\ raised = "IsADirectoryError"
             /\ \E done \in DeletedBeforeError(fs, obsolete) :
                    fs' = Unlink(fs, ListOf(done))
             /\ _metadata' = recorded
             /\ disk' = disk
       /\ last' = ExitRecord(self, tracking, new_files,
                             self.old_metadata.new_files,
                             recorded.new_files)

\* metadata_tracker.py: __exit__
TrackerExit ==
    /\ controller = "tracker"
    /\ ExitRuns(scope.pc)
    /\ tracker__exit__(scope)
    /\ scope' = Closed
    /\ UNCHANGED <<ignored, now, repo, _track_obsolete_files,
                   _enable_write_metadata, controller, handler, googleapis,
                   nesting, sharding>>

\* metadata.py: __enter__
WatcherEnter ==
    /\ controller = "watcher"
    /\ scope.pc = "closed"
    /\ Len(_metadata.generated_files) <= MaxRecorded
    /\ Len(_metadata.sources) < MaxSources
    /\ IF ReadRaises(disk)
       THEN /\ scope' = scope
            /\ _metadata' = _metadata
            /\ last' = EnterRaised("ParseError")
       ELSE IF GitMissing(repo)
       THEN /\ scope' = scope
            /\ _metadata' = _metadata
            /\ last' = EnterRaised("FileNotFoundError")
       ELSE /\ scope' = [pc |-> "open",
                         old_metadata |-> _read_or_empty(disk),
                         start_time |-> 0, touched |-> {},
                         entered_at |-> now]
            /\ _metadata' = _add_self_git_source(_metadata, repo)
            /\ last' = EnterRecord
    /\ UNCHANGED <<fs, ignored, now, repo, _track_obsolete_files,
                   _enable_write_metadata, disk, controller, handler, googleapis,
                   nesting, sharding>>


\* What the __exit__ of metadata.py does for the instance self.
watcher__exit__(self) ==
    LET tracking == should_track_obsolete_files
        recorded ==
            IF tracking /\ ~GitMissing(repo)
            THEN [_metadata EXCEPT !.generated_files =
                     @ \o git_ignore(get_touched_file_paths(self.touched),
                                     ignored, repo)]
            ELSE _metadata
        obsolete == ObsoleteFiles(self.old_metadata.generated_files,
                                  recorded.generated_files, ignored, repo)
        raised == ExitRaises(tracking, fs, obsolete, repo)
        cleared == _clear_local_paths(recorded)
        sorted == [cleared EXCEPT !.sources = SortSources(@)]
    IN /\ \/ /\ raised = "none"
             /\ fs' = IF tracking
                      THEN _remove_obsolete_files(
                               fs, self.old_metadata.generated_files,
                               recorded.generated_files, ignored, repo)
                      ELSE fs
             /\ _metadata' = sorted
             /\ disk' = IF _enable_write_metadata THEN WriteFile(sorted)
                        ELSE disk
          \/ /\ raised = "FileNotFoundError"
             /\ UNCHANGED <<fs, _metadata, disk>>
          \/ /\ raised = "IsADirectoryError"
             /\ \E done \in DeletedBeforeError(fs, obsolete) :
                    fs' = Unlink(fs, ListOf(done))
             /\ _metadata' = recorded
             /\ disk' = disk
       /\ last' = ExitRecord(self, tracking,
                             get_touched_file_paths(self.touched),
                             self.old_metadata.generated_files,
                             recorded.generated_files)

\* metadata.py: __exit__.  Nothing read afterwards depends on the clock, so
\* the two seconds slept before the observer stops are not counted.
WatcherExit ==
    /\ controller = "watcher"
    /\ ExitRuns(scope.pc)
    /\ watcher__exit__(scope)
    /\ scope' = Closed
    /\ UNCHANGED <<ignored, now, repo, _track_obsolete_files,
                   _enable_write_metadata, controller, handler, googleapis,
                   nesting, sharding>>

Next ==
    \/ reset
    \/ \E b \in BOOLEAN : set_track_obsolete_files(b)
    \/ Tick
    \/ \E p \in GeneratedPaths : GenerateFile(p)
    \/ \E p \in PersonPaths : PersonWrites(p)
    \/ GitWrites
    \/ \E r \in IgnoreRules : SetIgnoreRules(r)
    \/ TrackerEnter
    \/ TrackerExit
    \/ WatcherEnter
    \/ WatcherExit

Spec == Init /\ [][Next]_vars

(***************************************************************************)
(* The store on its own: a synth script fills it through the add_*         *)
(* functions, writes it and reads the file back.                           *)
(***************************************************************************)
StoredGitSources ==
    {GitSource(StrA, StrOrigin, ShaOf(1), StrRepoDir, StrEmpty),
     GitSource(StrEmpty, StrEmpty, StrEmpty, StrEmpty, LogLines(0, 1))}
StoredGeneratorSources == {GeneratorSource(StrA, StrEmpty, StrOrigin)}
StoredTemplateSources == {TemplateSource(StrB, StrOrigin, StrEmpty)}
StoredDestinations ==
    {ClientDestination(StrA, StrB, StrEmpty, StrAB, StrEmpty, StrOrigin)}

StoreInit ==
    /\ fs = FreshTree
    /\ ignored = {}
    /\ now = 0
    /\ repo = FreshRepo
    /\ InitStore
    /\ disk \in {NoDisk, FileWith(CorruptText)}
    /\ controller = "watcher"
    /\ scope = Closed
    /\ last = Idle
    /\ googleapis = NoClones
    /\ handler = NewHandler
    /\ nesting = NoNesting
    /\ sharding = NotSharding

StoreNext ==
    \/ reset
    \/ \E g \in StoredGitSources : add_git_source(g)
    \/ \E g \in StoredGeneratorSources : add_generator_source(g)
    \/ \E t \in StoredTemplateSources : add_template_source(t)
    \/ \E d \in StoredDestinations : add_client_destination(d)
    \/ write
    \/ ReadMetadata

SpecStore == StoreInit /\ [][StoreNext]_vars

(***************************************************************************)
(* The canonical sort on its own: the store holds any list of sources that *)
(* add_* calls can have built, and one scope of the event-capture          *)
(* controller is entered and left around it.                               *)
(***************************************************************************)
SortedGitSources ==
    {GitSource(StrA, StrEmpty, StrEmpty, StrEmpty, StrEmpty),
     GitSource(StrA, StrEmpty, StrEmpty, StrEmpty, LogLines(0, 1)),
     GitSource(StrA, StrEmpty, ShaOf(1), StrEmpty, StrEmpty),
     GitSource(StrA, StrOrigin, StrEmpty, StrEmpty, StrEmpty),
     GitSource(StrB, StrEmpty, StrEmpty, StrRepoDir, StrEmpty)}
SortedGeneratorSources ==
    {GeneratorSource(StrA, StrEmpty, StrEmpty),
     GeneratorSource(StrA, StrEmpty, StrOrigin),
     GeneratorSource(StrA, ShaOf(1), StrEmpty),
     GeneratorSource(StrAB, StrEmpty, StrEmpty)}
SortedTemplateSources ==
    {TemplateSource(StrA, StrEmpty, StrEmpty),
     TemplateSource(StrA, StrEmpty, ShaOf(1)),
     TemplateSource(StrA, StrOrigin, StrEmpty),
     TemplateSource(StrB, StrEmpty, StrEmpty)}
SortedSources ==
    SortedGitSources \cup SortedGeneratorSources \cup SortedTemplateSources

\* The lists of at most n sources.
SourceLists(n) == UNION {[1..k -> SortedSources] : k \in 0..n}

SortInit ==
    /\ fs = FreshTree
    /\ ignored = {}
    /\ now = 0
    /\ repo = FreshRepo
    /\ _metadata \in {[EmptyMetadata EXCEPT !.sources = s] :
                          s \in SourceLists(MaxSources - 1)}
    /\ _track_obsolete_files = FALSE
    /\ _enable_write_metadata = TRUE
    /\ disk = NoDisk
    /\ controller = "watcher"
    /\ scope = Closed
    /\ last = Idle
    /\ googleapis = NoClones
    /\ handler = NewHandler
    /\ nesting = NoNesting
    /\ sharding = NotSharding

SortNext ==
    \/ WatcherEnter
    \/ WatcherExit

SpecSort == SortInit /\ [][SortNext]_vars

(***************************************************************************)
(* Git sources and their history under the timestamp-scan controller: a   *)
(* synth script registers the repository it generates from, at the commit  *)
(* that is checked out, while commits are made to that repository between  *)
(* and during the runs.                                                    *)
(***************************************************************************)
\* A sha that names no commit of the repository.
StrUnknownSha == StrOrigin

\* git commit in the repository of the working directory.
Commit ==
    /\ repo.head < MaxCommits
    /\ repo' = [repo EXCEPT !.head = @ + 1]
    /\ last' = Idle
    /\ UNCHANGED <<fs, ignored, now, _metadata, _track_obsolete_files,
                   _enable_write_metadata, disk, controller, handler, googleapis, scope,
                   nesting, sharding>>

\* A log that a source brings along.
StrOldLog == <<49, 10>>

\* What the script may pass to add_git_source: the checked-out commit with the
\* directory of the clone, the same with a log of its own and no directory,
\* or a sha from somewhere else.
LoggedGitSources(repository) ==
    {GitSource(StrA, StrEmpty, ShaOf(repository.head), StrRepoDir, StrEmpty),
     GitSource(StrA, StrEmpty, ShaOf(repository.head), StrEmpty, StrOldLog),
     GitSource(StrB, StrEmpty, StrUnknownSha, StrRepoDir, StrEmpty)}

LogInit ==
    /\ fs = FreshTree
    /\ ignored = {}
    /\ now = 0
    /\ repo = FreshRepo
    /\ InitStore
    /\ disk = NoDisk
    /\ controller = "tracker"
    /\ scope = Closed
    /\ last = Idle
    /\ googleapis = NoClones
    /\ handler = NewHandler
    /\ nesting = NoNesting
    /\ sharding = NotSharding

LogNext ==
    \/ reset
    \/ \E g \in LoggedGitSources(repo) : add_git_source(g)
    \/ Commit
    \/ TrackerEnter
    \/ TrackerExit

SpecLog == LogInit /\ [][LogNext]_vars

(***************************************************************************)
(* A generation pass that may fail: the with-statement calls __exit__ once *)
(* the body has ended, so an exit that can run is not put off for ever.    *)
(***************************************************************************)
LiveNext ==
    \/ reset
    \/ \E b \in BOOLEAN : set_track_obsolete_files(b)
    \/ \E p \in GeneratedPaths : GenerateFile(p)
    \/ WorkRaises
    \/ TrackerEnter
    \/ TrackerExit
    \/ WatcherEnter
    \/ WatcherExit

\* The step that either __exit__ takes: it is the only one that closes a
\* scope, and it can be taken whenever __exit__ can run.
ScopeExit == ExitRuns(scope.pc) /\ scope' = Closed

SpecLive ==
    /\ Init
    /\ [][LiveNext]_vars
    /\ WF_scope(ScopeExit)

(***************************************************************************)
(* A pass over a directory whose surroundings are at fault: the metadata   *)
(* file may be unparsable, the record may list a path that is gone or that *)
(* is a directory by now, and git may not be installed.                    *)
(***************************************************************************)
\* A record of an earlier pass that wrote a, code (then a file) and code/b.
FaultyRecord ==
    [EmptyMetadata EXCEPT !.new_files = <<PathA, PathCode, PathCodeB>>,
                          !.generated_files = <<PathA, PathCode, PathCodeB>>]

\* What is left of the earlier pass: any of its files may be gone, and
\* code/c may be a link to a file that is gone.
LeftoverTrees ==
    {[p \in Paths |-> IF p \in kept THEN File(0, "generator")
                      ELSE IF p \in links THEN BrokenLink
                      ELSE FreshTree[p]] :
        kept \in SUBSET {PathA, PathCodeB, PathCodeC},
        links \in SUBSET {PathCodeC}}

FaultInit ==
    /\ fs \in LeftoverTrees
    /\ ignored = {}
    /\ now = MaxTime
    /\ repo \in {FreshRepo, [FreshRepo EXCEPT !.git_found = FALSE]}
    /\ InitStore
    /\ disk \in {NoDisk, FileWith(CorruptText), WriteFile(FaultyRecord)}
    /\ controller \in {"tracker", "watcher"}
    /\ scope = Closed
    /\ last = Idle
    /\ googleapis = NoClones
    /\ handler = NewHandler
    /\ nesting = NoNesting
    /\ sharding = NotSharding

FaultNext ==
    \/ reset
    \/ \E b \in BOOLEAN : set_track_obsolete_files(b)
    \/ \E p \in GeneratedPaths : GenerateFile(p)
    \/ TrackerEnter
    \/ TrackerExit
    \/ WatcherEnter
    \/ WatcherExit

SpecFault == FaultInit /\ [][FaultNext]_vars

(***************************************************************************)
(* A generation pass in a working directory that may be no repository:     *)
(* git check-ignore then ends with an error status and prints nothing,     *)
(* whatever .gitignore says.  The earlier run recorded a, code/c and a     *)
(* file inside .git.                                                       *)
(***************************************************************************)
OutsideRecord ==
    [EmptyMetadata EXCEPT
        !.new_files = <<PathA, PathGitConfig, PathCodeC>>,
        !.generated_files = <<PathA, PathGitConfig, PathCodeC>>]

OutsideTree ==
    [p \in Paths |-> IF p \in {PathA, PathCodeC} THEN File(0, "generator")
                     ELSE FreshTree[p]]

OutsideInit ==
    /\ fs = OutsideTree
    /\ ignored \in IgnoreRules
    /\ now = MaxTime
    /\ repo \in {FreshRepo, [FreshRepo EXCEPT !.is_repo = FALSE]}
    /\ InitStore
    /\ disk = WriteFile(OutsideRecord)
    /\ controller \in {"tracker", "watcher"}
    /\ scope = Closed
    /\ last = Idle
    /\ googleapis = NoClones
    /\ handler = NewHandler
    /\ nesting = NoNesting
    /\ sharding = NotSharding

OutsideNext ==
    \/ \E b \in BOOLEAN : set_track_obsolete_files(b)
    \/ \E p \in GeneratedPaths : GenerateFile(p)
    \/ GitWrites
    \/ TrackerEnter
    \/ TrackerExit
    \/ WatcherEnter
    \/ WatcherExit

SpecOutside == OutsideInit /\ [][OutsideNext]_vars

(***************************************************************************)
(* A process that asks for the googleapis repositories several times.      *)
(***************************************************************************)
CloneInit ==
    /\ fs = FreshTree
    /\ ignored = {}
    /\ now = 0
    /\ repo = FreshRepo
    /\ InitStore
    /\ disk = NoDisk
    /\ controller = "watcher"
    /\ scope = Closed
    /\ last = Idle
    /\ \E environ \in SUBSET {EnvironName(FALSE), EnvironName(TRUE)} :
       \E credentials \in BOOLEAN :
           googleapis = [NoClones EXCEPT !.environ = environ,
                                         !.credentials = credentials]
    /\ handler = NewHandler
    /\ nesting = NoNesting
    /\ sharding = NotSharding

CloneNext ==
    \/ \E private \in BOOLEAN : clone_googleapis(private)
    \/ \E d \in StoredDestinations : add_client_destination(d)

SpecClone == CloneInit /\ [][CloneNext]_vars

\* The same script, which may also reset the store between two calls.
CacheNext ==
    \/ \E private \in BOOLEAN : clone_googleapis(private)
    \/ \E d \in StoredDestinations : add_client_destination(d)
    \/ reset

SpecCache == CloneInit /\ [][CacheNext]_vars

(***************************************************************************)
(* The event handler alone, with its two threads.                          *)
(***************************************************************************)
HandlerNext ==
    \/ \E event \in Events : NotifierEvent(event)
    \/ NotifierAcquire
    \/ NotifierAppend
    \/ NotifierRelease
    \/ ForegroundCall
    \/ ForegroundAcquire
    \/ ForegroundCopy
    \/ ForegroundRelease
    \/ ForegroundSort

\* The handler of a scope of metadata.py, at its construction.
HandlerInit == Init /\ controller = "watcher" /\ disk = NoDisk

SpecHandler == HandlerInit /\ [][HandlerNext]_vars

(***************************************************************************)
(* A pass of a script that may switch the writing of synth.metadata off,   *)
(* as a script that composes several generation scopes does.               *)
(***************************************************************************)
ToggleNext ==
    \/ \E b \in BOOLEAN : enable_write_metadata(b)
    \/ \E b \in BOOLEAN : set_track_obsolete_files(b)
    \/ \E p \in GeneratedPaths : GenerateFile(p)
    \/ TrackerEnter
    \/ TrackerExit
    \/ WatcherEnter
    \/ WatcherExit

SpecToggle == Init /\ [][ToggleNext]_vars

(***************************************************************************)
(* Two instances on one metadata file: the second is entered and left      *)
(* while the first is open, as two nested with-statements do.  The earlier *)
(* run recorded a and code/b, and both are in the tree.                    *)
(***************************************************************************)
EarlierRecord ==
    [EmptyMetadata EXCEPT !.new_files = <<PathA, PathCodeB>>,
                          !.generated_files = <<PathA, PathCodeB>>]

EarlierTree ==
    [p \in Paths |-> IF p \in {PathA, PathCodeB} THEN File(0, "generator")
                     ELSE FreshTree[p]]

NestedPaths == {PathA, PathCodeB}

NestedInit ==
    /\ fs = EarlierTree
    /\ ignored = {}
    /\ now = 0
    /\ repo = FreshRepo
    /\ _metadata = EmptyMetadata
    /\ _track_obsolete_files = TRUE
    /\ _enable_write_metadata = TRUE
    /\ disk = WriteFile(EarlierRecord)
    /\ controller \in {"tracker", "watcher"}
    /\ scope = Closed
    /\ last = Idle
    /\ googleapis = NoClones
    /\ handler = NewHandler
    /\ nesting = NoNesting
    /\ sharding = NotSharding

\* Where the generation work is with respect to the second instance.
Stage ==
    IF nesting.inner.pc = "open" THEN "during"
    ELSE IF nesting.entered THEN "after"
    ELSE "before"

\* The handler of an open instance of metadata.py is told of the file.
Touched(self, path) ==
    IF self.pc = "open" /\ controller = "watcher"
    THEN [self EXCEPT !.touched = @ \cup {path}]
    ELSE self

\* The generation work writes a file while the first instance is open; the
\* observers of both instances watch the same directory.
NestedGenerateFile(path) ==
    /\ scope.pc = "open"
    /\ fs' = [fs EXCEPT ![path] = File(now, "generator")]
    /\ scope' = Touched(scope, path)
    /\ nesting' = [nesting EXCEPT
                      !.inner = Touched(@, path),
                      !.generated[path] = [stage |-> Stage, at |-> now]]
    /\ last' = Idle
    /\ UNCHANGED <<ignored, now, repo, _metadata, _track_obsolete_files,
                   _enable_write_metadata, disk, controller, handler,
                   googleapis, sharding>>

\* metadata_tracker.py: __enter__ of the second instance
InnerTrackerEnter ==
    /\ controller = "tracker"
    /\ scope.pc = "open"
    /\ nesting.inner.pc = "closed"
    /\ ~nesting.entered
    /\ IF ReadRaises(disk)
       THEN /\ nesting' = nesting
            /\ last' = EnterRaised("ParseError")
       ELSE /\ nesting' = [nesting EXCEPT
                              !.inner = [pc |-> "open",
                                         old_metadata |-> _read_or_empty(disk),
                                         start_time |-> now - 1,
                                         touched |-> {},
                                         entered_at |-> now],
                              !.entered = TRUE,
                              !.entered_at = now]
            /\ last' = EnterRecord
    /\ UNCHANGED <<fs, ignored, now, repo, _metadata, _track_obsolete_files,
                   _enable_write_metadata, disk, controller, handler,
                   googleapis, scope, sharding>>

\* metadata_tracker.py: __exit__ of the second instance
InnerTrackerExit ==
    /\ controller = "tracker"
    /\ ExitRuns(nesting.inner.pc)
    /\ tracker__exit__(nesting.inner)
    /\ nesting' = [nesting EXCEPT !.inner = Closed]
    /\ UNCHANGED <<ignored, now, repo, _track_obsolete_files,
                   _enable_write_metadata, controller, handler, googleapis,
                   scope, sharding>>

\* metadata.py: __enter__ of the second instance
InnerWatcherEnter ==
    /\ controller = "watcher"
    /\ scope.pc = "open"
    /\ nesting.inner.pc = "closed"
    /\ ~nesting.entered
    /\ Len(_metadata.sources) < MaxSources
    /\ IF ReadRaises(disk)
       THEN /\ nesting' = nesting
            /\ _metadata' = _metadata
            /\ last' = EnterRaised("ParseError")
       ELSE IF GitMissing(repo)
       THEN /\ nesting' = nesting
            /\ _metadata' = _metadata
            /\ last' = EnterRaised("FileNotFoundError")
       ELSE /\ nesting' = [nesting EXCEPT
                              !.inner = [pc |-> "open",
                                         old_metadata |-> _read_or_empty(disk),
                                         start_time |-> 0,
                                         touched |-> {},
                                         entered_at |-> now],
                              !.entered = TRUE,
                              !.entered_at = now]
            /\ _metadata' = _add_self_git_source(_metadata, repo)
            /\ last' = EnterRecord
    /\ UNCHANGED <<fs, ignored, now, repo, _track_obsolete_files,
                   _enable_write_metadata, disk, controller, handler,
                   googleapis, scope, sharding>>

\* metadata.py: __exit__ of the second instance
InnerWatcherExit ==
    /\ controller = "watcher"
    /\ ExitRuns(nesting.inner.pc)
    /\ watcher__exit__(nesting.inner)
    /\ nesting' = [nesting EXCEPT !.inner = Closed]
    /\ UNCHANGED <<ignored, now, repo, _track_obsolete_files,
                   _enable_write_metadata, controller, handler, googleapis,
                   scope, sharding>>

\* One pass: the first instance is entered once, and left
\* when the second one has been left (the with-statements are nested).
NestedNext ==
    \/ Tick
    \/ \E p \in NestedPaths : NestedGenerateFile(p)
    \/ last = Idle /\ TrackerEnter
    \/ last = Idle /\ WatcherEnter
    \/ InnerTrackerEnter
    \/ InnerTrackerExit
    \/ InnerWatcherEnter
    \/ InnerWatcherExit
    \/ nesting.inner.pc = "closed" /\ TrackerExit
    \/ nesting.inner.pc = "closed" /\ WatcherExit

SpecNested == NestedInit /\ [][NestedNext]_vars

(***************************************************************************)
(* shard_repos.main: the repositories of a provider are sorted by name and *)
(* split into shard_count shards.  A repository is a dict with a name; two *)
(* repositories may have the same name.                                    *)
(***************************************************************************)
Repo(name, url) == [name |-> name, url |-> url]
Repositories == {Repo(1, 1), Repo(1, 2), Repo(2, 3), Repo(3, 4)}

\* The lists list_repositories() may return: no repository twice.
RepoLists ==
    UNION {{r \in [1..n -> Repositories] :
               \A i, j \in 1..n : i # j => r[i] # r[j]} : n \in 0..MaxRepos}

\* list.sort(key=lambda repo: repo["name"]): a stable sort.
RECURSIVE SortByName(_)
SortByName(repos) ==
    IF repos = <<>> THEN <<>>
    ELSE LET least == CHOOSE i \in 1..Len(repos) :
                          /\ \A j \in 1..Len(repos) :
                                 repos[i].name <= repos[j].name
                          /\ \A j \in 1..(i - 1) :
                                 repos[j].name # repos[i].name
             rest == [k \in 1..(Len(repos) - 1) |->
                         IF k < least THEN repos[k] ELSE repos[k + 1]]
         IN <<repos[least]>> \o SortByName(rest)

\* alist[start:end], with the bounds clamped as Python does.
Slice(alist, start, end) ==
    LET lo == IF start > Len(alist) THEN Len(alist) ELSE start
        hi == IF end > Len(alist) THEN Len(alist) ELSE end
    IN SubSeq(alist, lo + 1, hi)

\* (a variant that gives no shard the extra repository)
ShardSizeWithoutRemainder(shard_size, shard_mod) == shard_size

\* i_shard_size of one turn of the loop.
IShardSize(shard_size, shard_mod) ==
    IF shard_mod > 0 THEN shard_size + 1 ELSE shard_size

\* sum([len(shard) for shard in shards])
RECURSIVE SumOfLengths(_)
SumOfLengths(shards) ==
    IF shards = <<>> THEN 0
    ELSE Len(Head(shards)) + SumOfLengths(Tail(shards))

\* main up to the loop: the list is fetched and sorted, divmod is taken.
ShardMain(repos, shard_count) ==
    /\ sharding.pc = "idle"
    /\ sharding' = [pc |-> "loop",
                    listed |-> repos,
                    repos |-> SortByName(repos),
                    shard_count |-> shard_count,
                    shard_size |-> Len(repos) \div shard_count,
                    shard_mod |-> Len(repos) % shard_count,
                    shard_start |-> 0,
                    shards |-> <<>>,
                    i |-> 0]
    /\ UNCHANGED <<fs, ignored, now, repo, _metadata, _track_obsolete_files,
                   _enable_write_metadata, disk, controller, handler,
                   googleapis, scope, last, nesting>>

\* One turn of `for i in range(shard_count)`.
ShardLoop ==
    /\ sharding.pc = "loop"
    /\ sharding.i < sharding.shard_count
    /\ LET i_shard_size == IShardSize(sharding.shard_size,
                                      sharding.shard_mod)
           shard_end == sharding.shard_start + i_shard_size
       IN sharding' = [sharding EXCEPT
                          !.shard_mod = IF @ > 0 THEN @ - 1 ELSE @,
                          !.shards = Append(@, Slice(sharding.repos,
                                                     sharding.shard_start,
                                                     shard_end)),
                          !.shard_start = shard_end,
                          !.i = @ + 1]
    /\ UNCHANGED <<fs, ignored, now, repo, _metadata, _track_obsolete_files,
                   _enable_write_metadata, disk, controller, handler,
                   googleapis, scope, last, nesting>>

\* The loop is over: the shards are printed and the assertion is made.
ShardAssert ==
    /\ sharding.pc = "loop"
    /\ sharding.i = sharding.shard_count
    /\ sharding' = [sharding EXCEPT
                       !.pc = IF Len(sharding.repos)
                                    = SumOfLengths(sharding.shards)
                              THEN "done" ELSE "AssertionError"]
    /\ UNCHANGED <<fs, ignored, now, repo, _metadata, _track_obsolete_files,
                   _enable_write_metadata, disk, controller, handler,
                   googleapis, scope, last, nesting>>

ShardInit == Init /\ controller = "tracker" /\ disk = NoDisk

ShardNext ==
    \/ \E repos \in RepoLists, shard_count \in 1..MaxShards :
           ShardMain(repos, shard_count)
    \/ ShardLoop
    \/ ShardAssert

SpecShard == ShardInit /\ [][ShardNext]_vars

(***************************************************************************)
(* Properties of the scope controllers, checked under Spec.  `last` holds  *)
(* what the exit that has just run found and did.                          *)
(***************************************************************************)
Exited == last.op = "exit"
InDotGit(p) == \E i \in DOMAIN p : p[i] = SegDotGit
Deleted == {p \in Paths : last.before[p].exists /\ ~fs[p].exists}

\* C1: an exit that tracks obsolete files deletes exactly the paths of
\* old - new that are not ignored at exit time and have no .git part; every
\* other file, so every file of new and every ignored path of old - new, is
\* left as it was.
ReconcileDeletesExactlyObsolete ==
    (Exited /\ last.tracking) =>
        \A p \in Paths :
            fs[p] = IF /\ p \in last.old_files \ last.new_files
                       /\ p \notin last.rules
                       /\ ~InDotGit(p)
                    THEN NoFile
                    ELSE last.before[p]

\* C1 witness: one exit deleted an obsolete file, kept an ignored obsolete
\* file and kept a newly recorded file.
ReconcileWitness ==
    /\ Exited /\ last.tracking
    /\ Deleted # {}
    /\ \E q \in (last.old_files \ last.new_files) \cap last.rules :
           fs[q].exists
    /\ \E r \in last.new_files : fs[r].exists

\* C2, as stated: no exit deletes a file whose content a person wrote, nor
\* a file that version control excludes.
ExitSparesPersonsFiles ==
    Exited =>
        \A p \in Paths :
            (/\ last.before[p].exists
             /\ last.before[p].author = "person" \/ p \in last.rules)
                => fs[p].exists

\* C2, amended: an exit deletes only paths that the record read at scope
\* entry lists as generated; a file that record does not list (whoever wrote
\* it), a file version control excludes and a file inside .git are left as
\* they were.
ExitDeletesOnlyRecordedFiles ==
    Exited =>
        \A p \in Paths :
            (p \notin last.old_files \/ p \in last.rules \/ InDotGit(p))
                => fs[p] = last.before[p]

\* C2 witness: an exit deleted a file while a person's file that the old
\* record does not list survived.
PersonsFileSurvivesWitness ==
    /\ Exited
    /\ Deleted # {}
    /\ \E p \in Paths \ last.old_files :
           fs[p].exists /\ fs[p].author = "person"

\* The files the timestamp scan should find, had it looked for files
\* modified from `since` on, after the ignore filter.
ModifiedSince(since) ==
    {p \in Paths : /\ last.before[p].exists
                   /\ last.before[p].mtime >= since
                   /\ p \notin last.rules
                   /\ ~InDotGit(p)}
FromEmpty == last.metadata_before.new_files = <<>>
TrackerExited == Exited /\ controller = "tracker" /\ last.tracking

\* C3, as stated: the record of a scope entered with empty metadata is
\* exactly the unignored files written since the scope was entered.
RecordsFilesWrittenInScope ==
    (TrackerExited /\ FromEmpty) =>
        SeqToSet(_metadata.new_files) = ModifiedSince(last.entered_at)

\* C3, amended: the record is exactly the unignored files modified no
\* earlier than one second before the scope was entered; and with old set
\* {a, code/b}, code/b and code/c modified in that time and code/c ignored,
\* the record is {code/b}, a is deleted, code/b and code/c remain.
RecordsFilesModifiedSinceStart ==
    (TrackerExited /\ FromEmpty) =>
        /\ SeqToSet(_metadata.new_files) = ModifiedSince(last.entered_at - 1)
        /\ (/\ last.old_files = {PathA, PathCodeB}
            /\ last.candidates \ {PathGitConfig} = {PathCodeB, PathCodeC}
            /\ PathCodeC \in last.rules
            /\ last.before[PathA].exists)
               => /\ SeqToSet(_metadata.new_files) = {PathCodeB}
                  /\ Deleted = {PathA}
                  /\ fs[PathCodeB].exists /\ fs[PathCodeC].exists

\* C3 witness: the scenario, in a scope entered a second after a was written.
ScanScenarioWitness ==
    /\ TrackerExited /\ FromEmpty
    /\ last.old_files = {PathA, PathCodeB}
    /\ last.candidates \ {PathGitConfig} = {PathCodeB, PathCodeC}
    /\ PathCodeC \in last.rules
    /\ Deleted = {PathA}

\* C28: the scan at the exit of a metadata_tracker.py scope collects a
\* file if and only if its modification time is no earlier than one second
\* before the entry; so it collects every file modified while the scope
\* was open, and no file last modified more than a second before.
ScanCollectsSinceEntryMinusOne ==
    TrackerExited =>
        /\ \A p \in Paths :
               p \in last.candidates
                   <=> /\ last.before[p].exists
                       /\ last.before[p].mtime >= last.entered_at - 1
        /\ \A p \in Paths :
               (/\ last.before[p].exists
                /\ last.before[p].mtime >= last.entered_at)
                   => p \in last.candidates
        /\ \A p \in Paths :
               (/\ last.before[p].exists
                /\ last.before[p].mtime < last.entered_at - 1)
                   => p \notin last.candidates

\* C28 witness: of three files, one was written two seconds before the
\* entry, one a second before it and one in the scope; the last two are
\* collected.
ScanBoundaryWitness ==
    /\ TrackerExited
    /\ \E p, q, r \in Paths :
           /\ last.before[p].exists /\ last.before[q].exists
           /\ last.before[r].exists
           /\ last.before[p].mtime = last.entered_at - 2
           /\ last.before[q].mtime = last.entered_at - 1
           /\ last.before[r].mtime >= last.entered_at
           /\ last.candidates = {q, r}

\* C4: no path with a .git part is in new_files or generated_files, in
\* memory or in the file an exit wrote, and no exit deletes such a path.
DotGitNeverRecordedNorDeleted ==
    /\ \A p \in SeqToSet(_metadata.new_files)
                \cup SeqToSet(_metadata.generated_files) : ~InDotGit(p)
    /\ Exited =>
        /\ \A p \in Paths : InDotGit(p) => fs[p] = last.before[p]
        /\ (controller = "tracker" \/ _enable_write_metadata) =>
               \A p \in SeqToSet(_read_or_empty(disk).new_files)
                        \cup SeqToSet(_read_or_empty(disk).generated_files) :
                   ~InDotGit(p)

\* C4 witness: a tracking exit met .git/config both in the old record and
\* among the changed files, recorded other files, and .git/config remains.
DotGitWitness ==
    /\ Exited /\ last.tracking
    /\ PathGitConfig \in last.old_files
    /\ PathGitConfig \in last.candidates
    /\ last.new_files # {}
    /\ fs[PathGitConfig].exists

\* C5: an exit that runs while the toggle is false (no exit changes the
\* toggle) deletes nothing and leaves new_files and generated_files as they
\* were.
DisabledExitChangesNothing ==
    (Exited /\ ~_track_obsolete_files) =>
        /\ fs = last.before
        /\ _metadata.new_files = last.metadata_before.new_files
        /\ _metadata.generated_files = last.metadata_before.generated_files

\* C5 witness: the toggle was false at an exit that had changed files to
\* record and an obsolete, unignored file to delete.
DisabledExitWitness ==
    /\ Exited /\ ~_track_obsolete_files
    /\ \E p \in last.candidates : ~InDotGit(p) /\ p \notin last.rules
    /\ \E p \in last.old_files \ last.candidates :
           fs[p].exists /\ ~InDotGit(p) /\ p \notin last.rules

\* The generated-file list of the controller in use.
RecordOf(metadata) ==
    IF controller = "tracker" THEN metadata.new_files
    ELSE metadata.generated_files

\* C33, as stated: an exit that runs with the tracking off writes a file
\* with an empty generated-file list.
DisabledExitPersistsEmptyRecord ==
    (Exited /\ ~_track_obsolete_files /\ disk # last.disk_before) =>
        RecordOf(_read_or_empty(disk)) = <<>>

\* C33, amended: an exit that runs with the tracking off writes the
\* generated-file list the store holds, which is empty when the store was
\* reset or is fresh, whatever the file read at entry listed; the scope
\* entered next then finds an empty list, and a tracking exit whose
\* snapshot lists no file deletes none.
DisabledExitPersistsStoredRecord ==
    /\ (Exited /\ ~_track_obsolete_files /\ _enable_write_metadata) =>
           /\ disk = WriteFile(_metadata)
           /\ RecordOf(_read_or_empty(disk)) = RecordOf(last.metadata_before)
    /\ (last.op = "enter" /\ last.after_untracked) =>
           RecordOf(scope.old_metadata) = <<>>
    /\ (Exited /\ _track_obsolete_files /\ last.old_files = {}) =>
           Deleted = {}

\* C33 witness: a scope has just been entered after an exit that ran with
\* the tracking off and dropped a file the earlier run had recorded; the
\* file is still there and the snapshot of the new scope lists nothing.
DroppedRecordWitness ==
    /\ last.op = "enter" /\ last.after_untracked
    /\ \E p \in last.dropped : fs[p].exists /\ ~InDotGit(p)
    /\ RecordOf(scope.old_metadata) = <<>>

TouchedAndTracked ==
    {p \in last.candidates : p \notin last.rules /\ ~InDotGit(p)}

\* C24: in an exit that tracks obsolete files, the set of new files that
\* the reconciler subtracts from the old ones holds every unignored file
\* touched in this scope, so the exit deletes no file touched in it.
ReconcilerSeesFullNewSet ==
    (Exited /\ last.tracking) =>
        /\ TouchedAndTracked \subseteq last.new_files
        /\ \A p \in last.candidates : fs[p] = last.before[p]

\* C24 witness: a file that the old record lists was written again in this
\* scope; the exit kept it while it deleted another file of the old record.
ReconcilerSeesFullNewSetWitness ==
    /\ Exited /\ last.tracking
    /\ \E p \in TouchedAndTracked \cap last.old_files : fs[p].exists
    /\ Deleted # {}

\* C7: the toggle is true before any set_track_obsolete_files call, and
\* changes only in a set_track_obsolete_files(v) call, to v.
TrackingDefaultsToTrueAndFollowsSet ==
    /\ should_track_obsolete_files = TRUE
    /\ [][\/ \E v \in BOOLEAN : /\ set_track_obsolete_files(v)
                                /\ should_track_obsolete_files' = v
          \/ UNCHANGED _track_obsolete_files]_vars

(***************************************************************************)
(* Properties of the store, checked under SpecStore.                       *)
(***************************************************************************)
\* C8: a read of the metadata file right after a write returns a Metadata
\* equal, field for field, to the in-memory Metadata that was written
\* (local_path included, since a direct write does not clear it), whatever
\* reset and the add_* calls had put there.
WriteThenReadRoundTrips ==
    (last.op = "read" /\ last.after_write) => last.result = last.written

\* C8 witness: the Metadata written and read back held a git source with a
\* local_path, a source with empty fields, and a destination.
RoundTripWitness ==
    /\ last.op = "read" /\ last.after_write
    /\ \E i \in DOMAIN last.written.sources :
           /\ last.written.sources[i].kind = "git"
           /\ last.written.sources[i].local_path # StrEmpty
    /\ \E i \in DOMAIN last.written.sources :
           /\ last.written.sources[i].kind # "git"
           /\ last.written.sources[i].name # StrEmpty
           /\ last.written.sources[i].version = StrEmpty
    /\ last.written.destinations # <<>>

\* C14: a read finds no file and returns the empty Metadata without
\* raising, or finds a file that is not a Metadata in JSON and raises a
\* parse error.
ReadOfMissingOrCorruptFile ==
    last.op = "read" =>
        /\ disk = NoDisk =>
               last.raised = "none" /\ last.result = EmptyMetadata
        /\ disk = FileWith(CorruptText) =>
               last.raised = "ParseError" /\ last.result = NoResult

\* C14 witness: a read of a corrupt file raised while the store held
\* sources.
CorruptReadWitness ==
    /\ last.op = "read"
    /\ disk = FileWith(CorruptText)
    /\ last.raised = "ParseError"
    /\ _metadata.sources # <<>>

\* The kind of source each call makes.
KindOfCall ==
    [add_git_source |-> "git", add_generator_source |-> "generator",
     add_template_source |-> "template"]

\* C20: after a call of add_git_source, add_generator_source or
\* add_template_source the sources are those of before with the given
\* source, of the kind of the call, appended; destinations and recorded
\* files are as before; after n identical calls in a row the last n
\* entries are that source, and the first call on empty metadata makes
\* sources[1].
AddAppendsOneSource ==
    last.op = "add" =>
        LET sources == _metadata.sources
            n == last.repeat
        IN /\ sources = Append(last.before.sources, last.source)
           /\ last.source.kind = KindOfCall[last.call]
           /\ _metadata.destinations = last.before.destinations
           /\ _metadata.new_files = last.before.new_files
           /\ _metadata.generated_files = last.before.generated_files
           /\ Len(sources) >= n
           /\ \A i \in (Len(sources) - n + 1)..Len(sources) :
                  sources[i] = last.source
           /\ last.before = EmptyMetadata => sources = <<last.source>>

\* C20 witness: the same add_git_source call was made twice in a row on
\* metadata that held a destination; the sources are that source twice.
RepeatedAddWitness ==
    /\ last.op = "add" /\ last.call = "add_git_source"
    /\ last.repeat = MaxStored
    /\ _metadata.destinations # <<>>
    /\ _metadata.sources = [i \in 1..MaxStored |-> last.source]

\* C22: the file that write leaves is a JSON object that is not empty,
\* holds the recorded sources, and has a top-level updateTime.
WriteStampsUpdateTime ==
    (last.op = "write" /\ _metadata.sources # <<>>) =>
        /\ disk.exists
        /\ DOMAIN disk.text # {}
        /\ DOMAIN disk.text \ {"updateTime"}
               \subseteq {"sources", "destinations", "newFiles",
                          "generatedFiles"}
        /\ Parse(disk.text).sources = _metadata.sources
        /\ "updateTime" \in DOMAIN disk.text

\* (what write does do for the sources, on any metadata that has some)
WriteKeepsSources ==
    (last.op = "write" /\ _metadata.sources # <<>>) =>
        /\ disk.exists
        /\ DOMAIN disk.text # {}
        /\ IsMetadataJson(disk.text)
        /\ Parse(disk.text).sources = _metadata.sources

\* C12: whatever add_git_source, write and reset calls were made, the
\* metadata file never holds a local_path for a git source.
NoLocalPathOnDisk ==
    disk.exists =>
        \A i \in DOMAIN Field(disk.text, "sources") :
            "git" \in DOMAIN disk.text.sources[i]
                => "localPath" \notin DOMAIN disk.text.sources[i].git

(***************************************************************************)
(* Properties of the canonical order, checked under SpecSort.              *)
(***************************************************************************)
\* What an exit of the event-capture controller writes for a Metadata.
FinalizedText(metadata) ==
    MessageToJson([_clear_local_paths(metadata) EXCEPT
                      !.sources = SortSources(@)])

\* The same sources in every insertion order.
Reorderings(sources) ==
    {[i \in 1..Len(sources) |-> sources[perm[i]]] :
        perm \in Permutations(1..Len(sources))}

\* C9: the file an exit writes does not depend on the order in which the
\* sources were added: any other insertion order of the same sources would
\* have been serialized to the same text.
SameSourcesSerializeIdentically ==
    Exited =>
        \A sources \in Reorderings(last.metadata_before.sources) :
            FinalizedText([last.metadata_before EXCEPT !.sources = sources])
                = disk.text

\* The part of a source's sort key that depends on its kind.
KindKey(source) ==
    IF source.kind = "git"
    THEN <<source.name, source.remote, source.sha>>
    ELSE IF source.kind = "generator"
    THEN <<source.name, source.version, source.docker_image>>
    ELSE <<source.name, source.origin, source.version>>

\* sources is grouped by kind in the order of rank, and inside a kind its
\* kind-specific keys never decrease.
OrderedBy(sources, rank) ==
    \A i, j \in DOMAIN sources :
        i < j =>
            \/ rank[sources[i].kind] < rank[sources[j].kind]
            \/ /\ sources[i].kind = sources[j].kind
               /\ \/ KindKey(sources[i]) = KindKey(sources[j])
                  \/ KeyLess(KindKey(sources[i]), KindKey(sources[j]))

\* C10, as stated: after an exit the sources, in memory and in the file,
\* come git first, then generator, then template, and inside a kind in
\* lexicographic order of (name, remote, sha), (name, version,
\* docker_image), (name, origin, version).
SourcesOrderedGitGeneratorTemplate ==
    (Exited /\ controller = "watcher") =>
        LET rank == [git |-> 1, generator |-> 2, template |-> 3]
        IN /\ OrderedBy(_metadata.sources, rank)
           /\ OrderedBy(_read_or_empty(disk).sources, rank)

\* C10, amended: after an exit the sources, in memory and in the file, come
\* in the string order of their kind tags, generator first, then git, then
\* template, and inside a kind in lexicographic order of the kind-specific
\* key.
SourcesOrderedGeneratorGitTemplate ==
    (Exited /\ controller = "watcher") =>
        LET rank == [generator |-> 1, git |-> 2, template |-> 3]
        IN /\ OrderedBy(_metadata.sources, rank)
           /\ OrderedBy(_read_or_empty(disk).sources, rank)

\* C10 witness: an exit reordered a list that holds all three kinds and two
\* git sources with different keys.
SourcesReorderedWitness ==
    /\ Exited /\ controller = "watcher"
    /\ {_metadata.sources[i].kind : i \in DOMAIN _metadata.sources}
           = {"git", "generator", "template"}
    /\ \E i, j \in DOMAIN _metadata.sources :
           /\ _metadata.sources[i].kind = "git"
           /\ _metadata.sources[j].kind = "git"
           /\ KindKey(_metadata.sources[i]) # KindKey(_metadata.sources[j])
    /\ _metadata.sources # _clear_local_paths(last.metadata_before).sources
    /\ _read_or_empty(disk).sources = _metadata.sources

(***************************************************************************)
(* Properties of the git history, checked under SpecLog.                   *)
(***************************************************************************)
\* The commits of the repository, as shas.
IsCommit(sha) == \E n \in 1..repo.head : ShaOf(n) = sha
CommitOf(sha) == CHOOSE n \in 1..repo.head : ShaOf(n) = sha

\* The sha the old snapshot records for a git source of that name ("" if
\* it records none).
OldSha(name) ==
    LET o == GitSourceIndex(last.old_metadata, name)
    IN IF o = 0 THEN StrEmpty ELSE last.old_metadata.sources[o].sha

\* C11: after an exit, every git source that had a local path and whose
\* name the old snapshot records with the sha of a commit is persisted with
\* a log of exactly the commits after that sha up to HEAD, newest first,
\* and without its local_path.
GitLogsAppended ==
    (Exited /\ controller = "tracker") =>
        \A i \in DOMAIN last.metadata_before.sources :
            LET source == last.metadata_before.sources[i]
                persisted == _read_or_empty(disk).sources[i]
            IN (/\ source.kind = "git"
                /\ source.local_path = StrRepoDir
                /\ IsCommit(OldSha(source.name)))
                   => /\ persisted.log
                          = LogLines(CommitOf(OldSha(source.name)), repo.head)
                      /\ persisted.local_path = StrEmpty

(***************************************************************************)
(* Properties of a failing generation pass, checked under SpecLive.        *)
(***************************************************************************)
\* The exit that has just run went through its whole sequence: it
\* reconciled the tree if tracking was on, cleared the local paths and left
\* the file holding the finalized in-memory metadata.
ExitSequenceDone ==
    /\ Exited
    /\ scope.pc = "closed"
    /\ last.tracking = _track_obsolete_files
    /\ last.tracking =>
           \A p \in Paths :
               fs[p] = IF /\ p \in last.old_files \ last.new_files
                          /\ p \notin last.rules
                          /\ ~InDotGit(p)
                       THEN NoFile
                       ELSE last.before[p]
    /\ \A i \in DOMAIN _metadata.sources :
           _metadata.sources[i].kind = "git"
               => _metadata.sources[i].local_path = StrEmpty
    /\ disk = WriteFile(_metadata)

\* C13: an open scope is eventually closed, and a scope whose generation
\* work raised an error is eventually closed by an exit that went through
\* its whole sequence.
FailedScopeStillExits ==
    /\ (scope.pc = "open") ~> (scope.pc = "closed")
    /\ (scope.pc = "failed") ~> (ExitSequenceDone /\ last.work_failed)

\* C13 witness: the work of a scope raised after it had generated a file,
\* and the exit that followed deleted an obsolete file and wrote the record
\* of the generated one.
FailedScopeWitness ==
    /\ ExitSequenceDone /\ last.work_failed /\ last.tracking
    /\ Deleted # {}
    /\ last.new_files # last.old_files
    /\ _read_or_empty(disk).new_files \o _read_or_empty(disk).generated_files
           # <<>>

\* The sources after the git logs were appended to those the exit found
\* and the local paths were cleared then.
LoggedThenCleared ==
    _clear_local_paths(
        _append_git_logs(last.old_metadata, last.metadata_before, repo)
    ).sources

\* C25: an exit reconciles, appends the git logs while the local paths are
\* there, clears the local paths, sorts the sources and writes the file, in
\* this order: the file holds the sources with their logs, without local
\* paths, in canonical order.
ExitStepsInFixedOrder ==
    (Exited /\ last.raised = "none") =>
        _read_or_empty(disk).sources = SortSources(LoggedThenCleared)

\* (the part on the logs alone: appended before the local paths are
\* cleared, and written after both)
ExitLogsThenClearsThenWrites ==
    (Exited /\ last.raised = "none") =>
        _read_or_empty(disk).sources = LoggedThenCleared

\* The git sources for which the exit that has just run called git log and
\* got a status other than 0.
FailedLogsAtExit ==
    {i \in DOMAIN last.metadata_before.sources :
        LET source == last.metadata_before.sources[i]
        IN /\ source.kind = "git"
           /\ GitSourceIndex(last.metadata_before, source.name) = i
           /\ OldSha(source.name) # StrEmpty
           /\ source.local_path # StrEmpty
           /\ GitLogFails(source.local_path, OldSha(source.name), repo)}

\* C19: an exit whose git log ends with a status other than 0 raises an
\* error and persists nothing: no source gets the output of the failed
\* command as its log.
GitLogFailureIsPropagated ==
    (Exited /\ controller = "tracker" /\ FailedLogsAtExit # {}) =>
        /\ last.raised # "none"
        /\ disk = last.disk_before

\* The git sources the exit that has just run found in the metadata for
\* which the old snapshot has no git source of that name, or one without a
\* sha, or which have no local path.
SkippedAtExit ==
    {i \in DOMAIN last.metadata_before.sources :
        LET source == last.metadata_before.sources[i]
        IN /\ source.kind = "git"
           /\ \/ GitSourceIndex(last.old_metadata, source.name) = 0
              \/ OldSha(source.name) = StrEmpty
              \/ source.local_path = StrEmpty}

\* C30: at an exit, a git source whose name the old snapshot does not
\* record, or records without a sha, or which has no local path, keeps the
\* log it had; git log is not run for it and the exit raises nothing.
GitLogSkippedWithoutHistory ==
    (Exited /\ controller = "tracker") =>
        \A i \in SkippedAtExit :
            /\ _read_or_empty(disk).sources[i].log
                   = last.metadata_before.sources[i].log
            /\ i \notin last.git_logs
            /\ last.raised = "none"

\* C30 witness: an exit that ran git log for one source and got commits,
\* and passed over another that came with a log of its own.
GitLogSkippedWitness ==
    /\ Exited /\ controller = "tracker"
    /\ \E i \in SkippedAtExit :
           /\ last.metadata_before.sources[i].log = StrOldLog
           /\ _read_or_empty(disk).sources[i].log = StrOldLog
    /\ \E j \in last.git_logs :
           _read_or_empty(disk).sources[j].log # StrEmpty

(***************************************************************************)
(* Properties of a pass whose surroundings are at fault, checked under     *)
(* SpecFault.                                                              *)
(***************************************************************************)
EnterAttempted == last.op \in {"enter", "enter_raised"}

\* C15: an enter that finds a metadata file it cannot parse raises nothing,
\* opens the scope, and takes the empty Metadata as the old snapshot, as it
\* does when there is no file.
UnparsableFileIsTreatedAsAbsent ==
    (EnterAttempted /\ ReadRaises(disk)) =>
        /\ last.op = "enter"
        /\ scope.pc = "open"
        /\ scope.old_metadata = EmptyMetadata

\* The paths that the exit that has just run set out to delete.
ObsoleteAtExit ==
    {p \in last.old_files \ last.new_files :
        p \notin last.rules /\ ~InDotGit(p)}
DirectoriesAtExit == {p \in ObsoleteAtExit : IsDirectory(last.before, p)}
AbsentAtExit ==
    {p \in ObsoleteAtExit \ DirectoriesAtExit :
        p \notin Paths \/ ~last.before[p].exists}
ReconcilingExit == Exited /\ last.tracking /\ ~GitMissing(repo)

\* C16: an exit that cannot delete one obsolete path, because the path is a
\* directory, still deletes every other obsolete path, runs to its end and
\* writes the metadata file.
DeletionFailureDoesNotAbort ==
    (ReconcilingExit /\ DirectoriesAtExit # {}) =>
        /\ \A p \in (ObsoleteAtExit \ DirectoriesAtExit) \cap Paths :
               ~fs[p].exists
        /\ disk = WriteFile(_metadata)

\* C17: an exit that finds an obsolete path already gone raises nothing,
\* deletes the other obsolete paths and writes the metadata file.
AbsentObsoleteFileIsPassedOver ==
    (ReconcilingExit /\ DirectoriesAtExit = {} /\ AbsentAtExit # {}) =>
        /\ last.raised = "none"
        /\ \A p \in ObsoleteAtExit \cap Paths : ~fs[p].exists
        /\ disk = WriteFile(_metadata)

\* C17 witness: of the obsolete paths one was gone and another was still
\* there; the exit deleted it and wrote a new metadata file.
AbsentObsoleteFileWitness ==
    /\ ReconcilingExit /\ DirectoriesAtExit = {}
    /\ AbsentAtExit # {}
    /\ Deleted # {}
    /\ disk = WriteFile(_metadata)
    /\ disk # last.disk_before

\* C18: when git is not installed, an exit that tracks obsolete files ends
\* with the error of the ignore filter whatever the paths it was about to
\* filter, none at all included; it deletes no file and adds no path to
\* the record of generated files.
MissingGitAbortsTracking ==
    (Exited /\ _track_obsolete_files /\ ~repo.git_found) =>
        /\ last.raised = "FileNotFoundError"
        /\ fs = last.before
        /\ _metadata.new_files = last.metadata_before.new_files
        /\ _metadata.generated_files = last.metadata_before.generated_files

\* C18 witness: git was missing at an exit that had new files to record
\* and an obsolete file to delete; the file is still there.
MissingGitWitness ==
    /\ Exited /\ _track_obsolete_files /\ ~repo.git_found
    /\ last.raised = "FileNotFoundError"
    /\ last.candidates # {}
    /\ \E p \in (last.old_files \ last.candidates) \cap Paths : fs[p].exists

\* C18 witness of the empty input: the same exit with no new file at all.
MissingGitEmptyInputWitness ==
    /\ Exited /\ _track_obsolete_files /\ ~repo.git_found
    /\ last.raised = "FileNotFoundError"
    /\ last.candidates = {}

(***************************************************************************)
(* Properties of the write toggle, checked under SpecToggle.               *)
(***************************************************************************)
\* C21: an exit that runs while writing is disabled leaves the metadata
\* file as it was, absent or with its content; an exit that runs while
\* writing is enabled leaves the file holding the finalized metadata.
ExitWritesOnlyWhenEnabled ==
    Exited =>
        disk = IF _enable_write_metadata THEN WriteFile(_metadata)
               ELSE last.disk_before

(***************************************************************************)
(* Properties of clone_googleapis, checked under SpecClone.                *)
(***************************************************************************)
SourcesNamed(name) ==
    {i \in DOMAIN _metadata.sources :
        /\ _metadata.sources[i].kind = "git"
        /\ _metadata.sources[i].name = name}

\* What C23 says of the calls made with one value of private.
OncePerKey(private) ==
    /\ googleapis.runs[private] <= 1
    /\ (/\ last.op = "clone"
        /\ last.private = private
        /\ googleapis.calls[private] >= 2)
           => /\ last.result = googleapis.first[private]
              /\ last.result # NoPath
              /\ _metadata = last.before
              /\ Cardinality(SourcesNamed(ClonedSource(private).name)) = 1

\* C23: the body of clone_googleapis runs at most once for each value of
\* private; a later call with the same value returns the path the first
\* call returned and adds no source, and after two calls with the same
\* value the metadata holds exactly one source for that repository.
\* Stated for the processes in which a clone cannot fail.
CloneWorkRunsOncePerKey ==
    googleapis.credentials => \A private \in BOOLEAN : OncePerKey(private)

\* (the same, for the processes that have no local copy either)
CloneWorkRunsOncePerKeyWhenCloning ==
    (googleapis.credentials /\ googleapis.environ = {})
        => \A private \in BOOLEAN : OncePerKey(private)

\* (and for all processes)
CloneWorkRunsOncePerKeyAlways == \A private \in BOOLEAN : OncePerKey(private)

(***************************************************************************)
(* Properties of the clone cache and the store, checked under SpecCache.   *)
(***************************************************************************)
\* clone_googleapis has just been called for the second time with the same
\* value of private, right after a reset of the store.
ClonedAgainAfterReset ==
    /\ last.op = "clone"
    /\ last.prior = "none"
    /\ last.before = EmptyMetadata
    /\ googleapis.calls[last.private] >= 2

\* What C34 says of such a call.
ServedFromCache ==
    /\ last.raised = "none"
    /\ last.result # NoPath
    /\ last.result = googleapis.first[last.private]
    /\ _metadata = EmptyMetadata
    /\ SourcesNamed(ClonedSource(last.private).name) = {}

\* C34: once clone_googleapis(p) has run and the store has been reset, a
\* further clone_googleapis(p) returns the cached path and records no git
\* source: the store holds no source for that repository.  Stated for the
\* processes in which a clone cannot fail.
CachedCloneAfterReset ==
    (ClonedAgainAfterReset /\ googleapis.credentials) => ServedFromCache

\* (the same, for the processes that have no local copy either)
CachedCloneAfterResetWhenCloning ==
    (/\ ClonedAgainAfterReset
     /\ googleapis.credentials
     /\ googleapis.environ = {})
        => ServedFromCache

(***************************************************************************)
(* Properties of the event handler, checked under SpecHandler.             *)
(***************************************************************************)
\* The path of an event without the watched directory in front.
BelowWatchDir(path) == Tail(path)

\* What the events delivered so far touched: the source of a created or
\* modified file, the destination of a moved file.
TouchedByDelivered ==
    {BelowWatchDir(e.src_path) :
        e \in {d \in handler.delivered :
                  ~d.is_directory /\ d.event_type \in {"created", "modified"}}}
    \cup
    {BelowWatchDir(e.dest_path) :
        e \in {d \in handler.delivered :
                  ~d.is_directory /\ d.event_type = "moved"}}

\* get_touched_file_paths has returned, and every event delivered so far
\* had been handled when it took the lock.
ReadAfterAllEvents ==
    /\ handler.foreground.pc = "done"
    /\ handler.quiet_at_lock
    /\ handler.count_at_lock = handler.count

\* C26: the list get_touched_file_paths returns after a sequence of events
\* is in ascending order, has no path twice, and holds exactly the paths,
\* relative to the watched directory, that the created, modified and moved
\* file events of the sequence touched; directory events and deleted
\* events add nothing.
TouchedPathsAreExactlyTheFileEvents ==
    ReadAfterAllEvents =>
        LET result == handler.foreground.result
        IN /\ SeqToSet(result) = TouchedByDelivered
           /\ \A i, j \in DOMAIN result :
                  i < j => StrLess(PathStr(result[i]), PathStr(result[j]))

\* C26 witness: as many file events as can be were delivered, one of them
\* a move, and two of them touched the same path; the result has two
\* paths.
TouchedPathsWitness ==
    /\ ReadAfterAllEvents
    /\ handler.count = MaxEvents
    /\ Len(handler._touched_file_paths) > Len(handler.foreground.result)
    /\ Len(handler.foreground.result) = 2
    /\ \E e \in handler.delivered : e.event_type = "moved" /\ ~e.is_directory

NotifierInCriticalSection == handler.notifier.pc \in {"append", "release"}
ForegroundInCriticalSection == handler.foreground.pc \in {"copy", "release"}

\* C27: the two threads are never both between taking and releasing the
\* lock; every path whose append is complete is in the list; and a result
\* holds every path whose append was complete when the reader took the
\* lock, and no path that no event reported.
TouchedPathsUnderMutualExclusion ==
    /\ ~(NotifierInCriticalSection /\ ForegroundInCriticalSection)
    /\ handler.appended = SeqToSet(handler._touched_file_paths)
    /\ handler.foreground.pc \in {"release", "sort", "done"} =>
           /\ handler.appended_at_lock \subseteq handler.foreground.paths
           /\ handler.foreground.paths \subseteq TouchedByDelivered
    /\ handler.foreground.pc = "done" =>
           SeqToSet(handler.foreground.result) = handler.foreground.paths

\* C27 witness: the reader took the lock while an event was waiting for it
\* and after another one had been appended; the result holds the path
\* that was appended and not the one that waited.
InterleavedReadWitness ==
    /\ handler.foreground.pc = "done"
    /\ ~handler.quiet_at_lock
    /\ handler.appended_at_lock # {}
    /\ SeqToSet(handler.foreground.result) = handler.appended_at_lock
    /\ handler.appended # handler.appended_at_lock

(***************************************************************************)
(* The scan of a tree that holds a broken link, checked under SpecFault.   *)
(***************************************************************************)
BrokenLinksAtExit == {p \in Paths : last.before[p] = BrokenLink}

\* C29: a path whose modification time cannot be read because its target
\* is gone is passed over by the scan: it is not collected and not
\* recorded, the files modified since the start are collected all the
\* same, and the exit does not raise for it.
ScanSkipsVanishedFile ==
    (ReconcilingExit /\ controller = "tracker" /\ BrokenLinksAtExit # {}) =>
        /\ BrokenLinksAtExit \cap last.candidates = {}
        /\ BrokenLinksAtExit \cap SeqToSet(_metadata.new_files) = {}
        /\ \A q \in Paths :
               (/\ last.before[q].exists
                /\ last.before[q].mtime >= last.entered_at - 1)
                   => q \in last.candidates
        /\ DirectoriesAtExit = {} =>
               last.raised = "none" /\ disk = WriteFile(_metadata)

\* C29 witness: the tree held a broken link and a file written in the
\* scope; the exit recorded the file alone and wrote the metadata.
ScanSkipsVanishedFileWitness ==
    /\ ReconcilingExit /\ controller = "tracker"
    /\ BrokenLinksAtExit # {}
    /\ last.candidates # {}
    /\ SeqToSet(_metadata.new_files) = last.candidates
    /\ last.raised = "none"
    /\ disk = WriteFile(_metadata)

(***************************************************************************)
(* Properties of two nested instances, checked under SpecNested.           *)
(***************************************************************************)
\* Both instances have been left, the first one just now.
BothClosed ==
    /\ Exited
    /\ scope.pc = "closed"
    /\ nesting.entered
    /\ nesting.inner.pc = "closed"

\* The files of the earlier record that the generation work wrote again in
\* the first instance before the second was entered, and not since; for
\* the timestamp scan, more than a second before the second was entered.
WrittenBeforeInner ==
    {p \in {PathA, PathCodeB} :
        /\ nesting.generated[p].stage = "before"
        /\ controller = "tracker"
               => nesting.generated[p].at < nesting.entered_at - 1}

\* C31: a second instance entered while the first is open corrupts the
\* tracking.  A file of the earlier record that the first instance
\* generated again before the second was entered is taken for obsolete by
\* the second: when both have been left the file is deleted, and the
\* record of the timestamp scan does not list it.
NestedScopeDeletesOuterFile ==
    BothClosed =>
        \A p \in WrittenBeforeInner :
            /\ ~fs[p].exists
            /\ controller = "tracker"
                   => p \notin SeqToSet(_read_or_empty(disk).new_files)

\* C31 witness: both instances have been left, a was generated in the
\* first before the second was entered, and a is gone.
NestedScopeWitness ==
    /\ BothClosed
    /\ PathA \in WrittenBeforeInner
    /\ nesting.generated[PathCodeB].stage = "during"
    /\ ~fs[PathA].exists
    /\ fs[PathCodeB].exists

\* (the pass is the only one: a closed first instance that can still be
\* entered has not been entered before)
NestedPassIsTheFirst ==
    (scope.pc = "closed" /\ last = Idle) =>
        /\ ~nesting.entered
        /\ disk = WriteFile(EarlierRecord)

(***************************************************************************)
(* Properties of shard_repos.main, checked under SpecShard.                *)
(***************************************************************************)
RECURSIVE Concatenation(_)
Concatenation(shards) ==
    IF shards = <<>> THEN <<>>
    ELSE Head(shards) \o Concatenation(Tail(shards))

\* A list is sorted by name, and holds what another holds.
InNameOrder(repos) ==
    \A i, j \in 1..Len(repos) : i < j => repos[i].name <= repos[j].name
SameRepositories(a, b) ==
    /\ Len(a) = Len(b)
    /\ \A r \in Repositories :
           Cardinality({i \in 1..Len(a) : a[i] = r})
               = Cardinality({i \in 1..Len(b) : b[i] = r})

ShardingOver == sharding.pc \in {"done", "AssertionError"}

\* C32: for every list of repositories and every shard_count >= 1 the loop
\* makes exactly shard_count shards; put one after the other they are the
\* list sorted by name, with no repository lost or twice; their sizes
\* differ by 1 at most, the larger ones first; and the assertion on the sum
\* of the sizes does not fail.
ShardsPartitionSortedList ==
    ShardingOver =>
        /\ sharding.pc = "done"
        /\ Len(sharding.shards) = sharding.shard_count
        /\ Concatenation(sharding.shards) = sharding.repos
        /\ InNameOrder(Concatenation(sharding.shards))
        /\ SameRepositories(Concatenation(sharding.shards), sharding.listed)
        /\ \A i, j \in 1..Len(sharding.shards) :
               i < j => /\ Len(sharding.shards[i]) >= Len(sharding.shards[j])
                        /\ Len(sharding.shards[i])
                               <= Len(sharding.shards[j]) + 1

\* C32 witness: three repositories listed out of name order, two shards: a
\* shard of two and a shard of one.
ShardsWitness ==
    /\ sharding.pc = "done"
    /\ ~InNameOrder(sharding.listed)
    /\ Len(sharding.listed) = 3
    /\ sharding.shard_count = 2
    /\ Len(sharding.shards[1]) = 2
    /\ Len(sharding.shards[2]) = 1

(***************************************************************************)
(* Properties of the ignore filter when git check-ignore fails, checked    *)
(* under SpecOutside.                                                      *)
(***************************************************************************)
\* The list the exit that has just run handed to git_ignore.
FilterInput ==
    IF controller = "tracker"
    THEN _get_new_files(last.before, last.entered_at - 1)
    ELSE SortedPaths(last.candidates)

\* An exit has just run its tracking outside a repository, with git found.
TrackedOutsideRepository ==
    /\ Exited
    /\ last.tracking
    /\ ~repo.is_repo
    /\ repo.git_found

\* C35: when git check-ignore fails and prints nothing, the filter raises
\* nothing and takes no path for ignored: the exit records every path it
\* found that has no .git part, in the order found, and deletes every
\* obsolete path that has no .git part, whatever the ignore rules say.
FailedIgnoreCheckIgnoresNothing ==
    TrackedOutsideRepository =>
        /\ last.raised = "none"
        /\ RecordOf(_metadata)
               = RecordOf(last.metadata_before)
                    \o SelectSeq(FilterInput, LAMBDA p : ~HasGitPart(p))
        /\ Deleted = {p \in last.old_files \ last.new_files :
                         ~HasGitPart(p) /\ last.before[p].exists}

\* C35 witness: outside a repository, with a rule for code/c, an exit
\* found a to record, deleted the obsolete code/c and left the obsolete
\* .git/config alone.
FailedIgnoreCheckWitness ==
    /\ TrackedOutsideRepository
    /\ PathCodeC \in last.rules
    /\ PathA \in last.new_files
    /\ PathCodeC \in Deleted
    /\ PathGitConfig \in last.old_files \ last.new_files
    /\ fs[PathGitConfig].exists

====
